---- MODULE Spec2Model ----
(***************************************************************************)
(* Model of the EQEmu script builder core (EQemu_script_builder_v1.2.py):  *)
(* the template renderer, the validation engine, the Perl generator and    *)
(* the line-oriented reverse parser.                                       *)
(*                                                                         *)
(* Text is modelled as a sequence of lexemes.  Every lexeme is a TLA+      *)
(* string.  The characters ( ) { } ; = , # ' " \ < + - and the blank are   *)
(* lexemes of their own; every other lexeme is a token the code's          *)
(* scanners and patterns only ever take or leave as a whole: a word (\w+), *)
(* a variable with its sigil ($x, @a, %h), one of :: -> ++ --, or a run    *)
(* of other text.  "\n" is the newline lexeme.                             *)
(***************************************************************************)
EXTENDS Integers, Sequences, FiniteSets, TLC

VARIABLES
    pc,         \* which call or loop iteration comes next
    text,       \* the string handed to the scanners
    open_ch,    \* _balanced_pairs: open_ch
    close_ch,   \* _balanced_pairs: close_ch
    scan,       \* the verdict of the last scan
    arena,      \* the Block objects, by identity (index)
    roots,      \* blocks: the top-level list of the script tree
    registry,   \* PluginRegistry.plugins
    perl,       \* what generate_perl returned (or raised)
    issues,     \* what validate_blocks returned (or raised)
    ps,         \* parse_perl_to_blocks: its locals (blocks, stack, accumulators)
    patterns,   \* parse_perl_to_blocks: plugin_patterns (or what building them raised)
    src_lines,  \* parse_perl_to_blocks: the lines read so far
    perl2,      \* what generate_perl returned for the imported blocks
    tmpl,       \* render_plugin_template: template
    tmpl_params,\* render_plugin_template: params
    rendered,   \* what render_plugin_template returned (or raised)
    window      \* MainWindow: script_tree, undo_stack, redo_stack, the timers

scanVars == <<text, open_ch, close_ch, scan>>
treeVars == <<arena, roots, registry>>
outVars == <<perl, issues>>
parseVars == <<ps, patterns, src_lines, perl2>>
renderVars == <<tmpl, tmpl_params, rendered>>
vars == <<pc, scanVars, treeVars, outVars, parseVars, renderVars, window>>

\* ------------------------------------------------------------------------
\* Bounds
\* ------------------------------------------------------------------------
MaxScanLen == 4
MaxBlocks == 2
MaxLines == 4

\* ------------------------------------------------------------------------
\* Python string helpers on lexeme sequences
\* ------------------------------------------------------------------------
\* the value of a result variable before the call was made
NotRun == [ok |-> FALSE, exc |-> <<"not called">>]

IsSpace(t) == t \in {" ", "\t", "\n"}

RECURSIVE lstrip(_)
lstrip(str) ==
    IF str # <<>> /\ IsSpace(Head(str)) THEN lstrip(Tail(str)) ELSE str

RECURSIVE rstrip(_)
rstrip(str) ==
    IF str # <<>> /\ IsSpace(str[Len(str)])
    THEN rstrip(SubSeq(str, 1, Len(str) - 1))
    ELSE str

strip(str) == lstrip(rstrip(str))

startswith(str, p) ==
    Len(str) >= Len(p) /\ SubSeq(str, 1, Len(p)) = p

endswith(str, p) ==
    Len(str) >= Len(p) /\ SubSeq(str, Len(str) - Len(p) + 1, Len(str)) = p

\* str.splitlines(): split at newlines, no empty last line after a final newline
RECURSIVE splitlines(_)
splitlines(str) ==
    IF str = <<>> THEN <<>>
    ELSE IF \E i \in 1..Len(str) : str[i] = "\n"
         THEN LET i == CHOOSE k \in 1..Len(str) :
                          str[k] = "\n" /\ \A j \in 1..(k - 1) : str[j] # "\n"
              IN <<SubSeq(str, 1, i - 1)>> \o splitlines(SubSeq(str, i + 1, Len(str)))
         ELSE <<str>>

\* "\n".join(lines)
RECURSIVE join(_)
join(ls) ==
    IF ls = <<>> THEN <<>>
    ELSE IF Len(ls) = 1 THEN ls[1]
    ELSE ls[1] \o <<"\n">> \o join(Tail(ls))

\* ------------------------------------------------------------------------
\* validate_blocks helpers: the quote and the pair scanners
\* ------------------------------------------------------------------------
\* one iteration of the loop of _unbalanced_quotes
QuoteStep(st, c) ==
    IF st.esc THEN [st EXCEPT !.esc = FALSE]
    ELSE IF c = "\\" THEN [st EXCEPT !.esc = TRUE]
    ELSE IF c = "'" /\ ~st.in_double THEN [st EXCEPT !.in_single = ~st.in_single]
    ELSE IF c = "\"" /\ ~st.in_single THEN [st EXCEPT !.in_double = ~st.in_double]
    ELSE st

\* for c in s, over the positions lo..hi (the range is halved to keep the
\* evaluation shallow; the iterations run in order)
RECURSIVE QuoteLoop(_, _, _, _)
QuoteLoop(str, lo, hi, st) ==
    IF lo > hi THEN st
    ELSE IF lo = hi THEN QuoteStep(st, str[lo])
    ELSE LET mid == (lo + hi) \div 2
             \* the state after the left half is a value before the right half runs
             right == {QuoteLoop(str, mid + 1, hi, m) : m \in {QuoteLoop(str, lo, mid, st)}}
         IN CHOOSE r \in right : TRUE

_unbalanced_quotes(str) ==
    LET st == QuoteLoop(str, 1, Len(str),
                        [in_single |-> FALSE, in_double |-> FALSE, esc |-> FALSE])
    IN st.in_single \/ st.in_double

\* mutant: the scan goes on after the counter went negative
PairClose_NoEarlyReturn(stack) == [ret |-> FALSE, stack |-> stack - 1]

\* how the loop of _balanced_pairs treats a close symbol: the early return
PairClose(stack) ==
    IF stack - 1 < 0 THEN [ret |-> TRUE, stack |-> stack - 1]
    ELSE [ret |-> FALSE, stack |-> stack - 1]

\* one iteration of the loop of _balanced_pairs; ret: the loop has returned
PairStep(st, ch, o, c) ==
    IF st.ret THEN st
    ELSE IF st.esc THEN [st EXCEPT !.esc = FALSE]
    ELSE IF ch = "\\" THEN [st EXCEPT !.esc = TRUE]
    ELSE IF ch = "'" /\ ~st.in_dq THEN [st EXCEPT !.in_sq = ~st.in_sq]
    ELSE IF ch = "\"" /\ ~st.in_sq THEN [st EXCEPT !.in_dq = ~st.in_dq]
    ELSE IF st.in_sq \/ st.in_dq THEN st
    ELSE IF ch = o THEN [st EXCEPT !.stack = st.stack + 1]
    ELSE IF ch = c
         THEN [st EXCEPT !.stack = PairClose(st.stack).stack,
                         !.ret = PairClose(st.stack).ret]
    ELSE st

RECURSIVE PairLoop(_, _, _, _, _, _)
PairLoop(str, o, c, lo, hi, st) ==
    IF lo > hi THEN st
    ELSE IF lo = hi THEN PairStep(st, str[lo], o, c)
    ELSE LET mid == (lo + hi) \div 2
             right == {PairLoop(str, o, c, mid + 1, hi, m) : m \in {PairLoop(str, o, c, lo, mid, st)}}
         IN CHOOSE r \in right : TRUE

_balanced_pairs(str, o, c) ==
    IF str = <<>> THEN [ok |-> TRUE, delta |-> 0]
    ELSE LET st == PairLoop(str, o, c, 1, Len(str),
                            [stack |-> 0, in_sq |-> FALSE, in_dq |-> FALSE,
                             esc |-> FALSE, ret |-> FALSE])
         IN IF st.ret THEN [ok |-> FALSE, delta |-> st.stack]
            ELSE [ok |-> (st.stack = 0), delta |-> st.stack]

\* the verdict lint_text derives from (ok, delta) for one symbol pair
PairVerdict(str, o, c) ==
    LET r == _balanced_pairs(str, o, c) IN
    IF ~r.ok THEN (IF r.delta < 0 THEN "too_many_closers" ELSE "missing_closer")
    ELSE IF r.delta # 0 THEN "missing_closer"
    ELSE "balanced"

\* ------------------------------------------------------------------------
\* Python values: str (a lexeme sequence), int, None, dict
\* ------------------------------------------------------------------------
S(seq) == [t |-> "str", s |-> seq]
I(n) == [t |-> "int", n |-> n]
D(f) == [t |-> "dict", d |-> f]
None == [t |-> "none"]
\* a float, held in tenths: Fl(-5) is -0.5
Fl(tenths) == [t |-> "float", tenths |-> tenths]

Ok(v) == [ok |-> TRUE, v |-> v]
Raise(e) == [ok |-> FALSE, exc |-> e]

\* the decimal numerals of the model's texts, [0-9_]+
Numerals == {"0", "1", "5", "10", "1_0"}

NumeralValue(tok) ==
    CASE tok = "0" -> 0
      [] tok = "1" -> 1
      [] tok = "5" -> 5
      [] tok = "10" -> 10
      [] tok = "1_0" -> 10

\* str(n) for an int
IntStr(n) == IF n < 0 THEN <<"-", ToString(-n)>> ELSE <<ToString(n)>>

\* str(x), as an f-string does it
PyStr(x) ==
    CASE x.t = "str" -> x.s
      [] x.t = "int" -> IntStr(x.n)
      [] x.t = "none" -> <<"None">>
      [] x.t = "float" ->
           LET a == IF x.tenths < 0 THEN 0 - x.tenths ELSE x.tenths IN
           (IF x.tenths < 0 THEN <<"-">> ELSE <<>>)
             \o <<ToString(a \div 10), ".", ToString(a % 10)>>
      [] OTHER -> <<"{}">>

\* bool(x)
PyTruthy(x) ==
    CASE x.t = "str" -> x.s # <<>>
      [] x.t = "int" -> x.n # 0
      [] x.t = "none" -> FALSE
      [] x.t = "float" -> x.tenths # 0
      [] OTHER -> DOMAIN x.d # {}

\* int(x)
PyInt(x) ==
    CASE x.t = "int" -> Ok(x.n)
      [] x.t = "float" ->
           \* truncation toward zero
           Ok(IF x.tenths < 0 THEN 0 - ((0 - x.tenths) \div 10) ELSE x.tenths \div 10)
      [] x.t = "str" ->
           LET w == strip(x.s) IN
           IF Len(w) = 1 /\ w[1] \in Numerals THEN Ok(NumeralValue(w[1]))
           ELSE IF Len(w) = 2 /\ w[1] = "-" /\ w[2] \in Numerals
                THEN Ok(0 - NumeralValue(w[2]))
           ELSE IF Len(w) = 2 /\ w[1] = "+" /\ w[2] \in Numerals
                THEN Ok(NumeralValue(w[2]))
           ELSE Raise(<<"ValueError", "invalid literal for int()">>)
      [] OTHER -> Raise(<<"TypeError", "int() argument">>)

\* x.strip() where the code expects a str
PyStrip(x) ==
    IF x.t = "str" THEN Ok(strip(x.s))
    ELSE Raise(<<"AttributeError", "strip">>)

\* dict.get(key, default)
Get(params, key, default) ==
    IF key \in DOMAIN params THEN params[key] ELSE default

\* ------------------------------------------------------------------------
\* Block kinds
\* ------------------------------------------------------------------------
BLOCK_EVENT == "event"
BLOCK_IF == "if"
BLOCK_ELSIF == "elsif"
BLOCK_ELSE == "else"
BLOCK_WHILE == "while"
BLOCK_RETURN == "return"
BLOCK_COMMENT == "comment"
BLOCK_SET_VAR == "set_var"
BLOCK_SET_BUCKET == "set_bucket"
BLOCK_GET_BUCKET == "get_bucket"
BLOCK_DELETE_BUCKET == "delete_bucket"
BLOCK_TIMER == "timer"
BLOCK_FOR == "for"
BLOCK_FOREACH == "foreach"
BLOCK_PLUGIN == "plugin"
BLOCK_RAW_PERL == "raw_perl"
BLOCK_METHOD == "method_call"
BLOCK_QUEST_CALL == "quest_call"
BLOCK_MY_VAR == "my_var"
BLOCK_OUR_VAR == "our_var"
BLOCK_NEXT == "next"
BLOCK_ARRAY_ASSIGN == "array_assign"

\* Block(type, label, params, children); children hold block identities.
\* The label is a display summary no operation of the model reads.
Block(type, params, children) ==
    [type |-> type, params |-> params, children |-> children]

\* ------------------------------------------------------------------------
\* Plugin catalog
\* ------------------------------------------------------------------------
\* PluginDef: the order key stands for name.lower()
PluginDef(plugin_id, name_key, perl_template, params) ==
    [plugin_id |-> plugin_id, name |-> name_key,
     perl_template |-> perl_template, params |-> params]

\* PluginRegistry.get: the definition, or not ok for None
RegistryGet(reg, pid) ==
    IF pid.t = "str" /\ \E p \in reg : p.plugin_id = pid.s
    THEN Ok(CHOOSE p \in reg : p.plugin_id = pid.s)
    ELSE [ok |-> FALSE, exc |-> <<"None">>]

\* ------------------------------------------------------------------------
\* render_plugin_template
\* ------------------------------------------------------------------------
\* lexemes matching [A-Za-z_]\w*
Identifiers == {"message", "item", "a", "q", "n"}

\* mutant: a null value is stringified like any other value
Repl_NoneAsText(key, params) ==
    IF key \notin DOMAIN params
    THEN Raise(<<"ValueError", "Missing template param", key>>)
    ELSE Ok(PyStr(params[key]))

\* mutant: a placeholder without an entry renders as nothing
Repl_Lenient(key, params) ==
    IF key \notin DOMAIN params THEN Ok(<<>>)
    ELSE IF params[key].t = "none" THEN Ok(<<>>) ELSE Ok(PyStr(params[key]))

\* repl(m)
Repl(key, params) ==
    IF key \notin DOMAIN params
    THEN Raise(<<"ValueError", "Missing template param", key>>)
    ELSE IF params[key].t = "none" THEN Ok(<<>>) ELSE Ok(PyStr(params[key]))

RECURSIVE SubPlaceholders(_, _, _)
SubPlaceholders(template, params, i) ==
    IF i > Len(template) THEN Ok(<<>>)
    ELSE IF /\ template[i] = "{"
            /\ i + 2 <= Len(template)
            /\ template[i + 1] \in Identifiers
            /\ template[i + 2] = "}"
         THEN LET r == Repl(template[i + 1], params) IN
              IF ~r.ok THEN r
              ELSE LET rest == SubPlaceholders(template, params, i + 3) IN
                   IF ~rest.ok THEN rest ELSE Ok(r.v \o rest.v)
         ELSE LET rest == SubPlaceholders(template, params, i + 1) IN
              IF ~rest.ok THEN rest ELSE Ok(<<template[i]>> \o rest.v)

render_plugin_template(template, params) ==
    IF params.t = "dict" THEN SubPlaceholders(template, params.d, 1)
    ELSE IF \E i \in 1..(Len(template) - 2) :
              /\ template[i] = "{"
              /\ template[i + 1] \in Identifiers
              /\ template[i + 2] = "}"
         THEN Raise(<<"TypeError", "argument of type 'NoneType' is not iterable">>)
         ELSE Ok(template)

\* ------------------------------------------------------------------------
\* generate_perl
\* ------------------------------------------------------------------------
RECURSIVE Spaces(_)
Spaces(n) == IF n <= 0 THEN <<>> ELSE <<" ">> \o Spaces(n - 1)

\* an emit that does not indent
emit_Flush(line, indent) == line

\* emit(line, indent): the line appended to lines
emit(line, indent) == Spaces(4 * indent) \o line

\* mutant: the lines list outlives the call (a shared accumulator)
GenStartLines_Shared ==
    IF perl.ok THEN splitlines(perl.v) ELSE <<>>

\* lines: List[str] = [] at the start of every call
GenStartLines == <<>>

\* (value or default), for the bucket keys
OrDefault(x, default) == IF PyTruthy(x) THEN x ELSE S(default)

\* a value text that is written as supplied
DeclValue_AsSupplied(params) ==
    IF Get(params, "value", S(<<>>)).t = "none" THEN <<>>
    ELSE PyStr(Get(params, "value", S(<<>>)))

\* the value text of a my/our declaration, one trailing semicolon stripped
DeclValue(params) ==
    LET raw == Get(params, "value", S(<<>>))
        v0 == IF raw.t = "none" THEN <<>> ELSE PyStr(raw)
    IN IF endswith(rstrip(v0), <<";">>)
       THEN rstrip(SubSeq(rstrip(v0), 1, Len(rstrip(v0)) - 1))
       ELSE v0

DeclLine(kw, params, default_var) ==
    LET var_name == PyStr(Get(params, "var_name", S(default_var)))
        value == DeclValue(params)
    IN IF strip(value) # <<>>
       THEN <<kw, " ">> \o var_name \o <<" ", "=", " ">> \o value \o <<";">>
       ELSE <<kw, " ">> \o var_name \o <<";">>

\* mutant: an unknown plugin id is looked up and rendered like a known one
UnknownPluginLines_Raises(pid, indent) ==
    Raise(<<"AttributeError", "'NoneType' object has no attribute 'perl_template'">>)

\* the branch of render_block for a plugin id the registry does not hold
UnknownPluginLines(pid, indent) ==
    Ok(<<emit(<<"#", " ", "[Unknown plugin:", " ">> \o PyStr(pid) \o <<"]">>, indent)>>)

\* the lines emitted for rendered plugin code
RECURSIVE PluginCodeLines(_, _)
PluginCodeLines(code_lines, indent) ==
    IF code_lines = <<>> THEN <<>>
    ELSE <<(IF strip(Head(code_lines)) # <<>>
            THEN emit(Head(code_lines), indent)
            ELSE emit(<<>>, indent))>> \o PluginCodeLines(Tail(code_lines), indent)

RECURSIVE EmitAll(_, _, _)
EmitAll(ls, prefix, indent) ==
    IF ls = <<>> THEN <<>>
    ELSE <<emit(prefix \o Head(ls), indent)>> \o EmitAll(Tail(ls), prefix, indent)

\* the opener line of a container kind, or what raised while formatting it
OpenerLine(block) ==
    LET t == block.type
        p == block.params
    IN CASE t = BLOCK_EVENT ->
              <<"sub", " ">> \o PyStr(Get(p, "event_name", S(<<"EVENT_SAY">>))) \o <<" ", "{">>
         [] t = BLOCK_IF ->
              <<"if", " ", "(">> \o PyStr(Get(p, "expr", S(<<"1">>))) \o <<")", " ", "{">>
         [] t = BLOCK_WHILE ->
              <<"while", " ", "(">> \o PyStr(Get(p, "expr", S(<<"1">>))) \o <<")", " ", "{">>
         [] t = BLOCK_FOREACH ->
              <<"foreach", " ", "my", " ">> \o PyStr(Get(p, "var_name", S(<<"$x">>)))
                \o <<" ", "(">> \o PyStr(Get(p, "list_expr", S(<<"@list">>))) \o <<")", " ", "{">>
         [] t = BLOCK_ELSIF ->
              <<"elsif", " ", "(">> \o PyStr(Get(p, "expr", S(<<"1">>))) \o <<")", " ", "{">>
         [] t = BLOCK_ELSE -> <<"else", " ", "{">>
         [] t = BLOCK_FOR ->
              LET var_name == PyStr(Get(p, "var_name", S(<<"$i">>)))
                  start_s == PyStr(Get(p, "start", I(0)))
                  end_s == PyStr(Get(p, "end", I(10)))
                  cmp_op == PyStr(Get(p, "cmp_op", S(<<"<", "=">>)))
                  inc0 == Get(p, "inc_expr", None)
                  inc_expr == IF PyTruthy(inc0) THEN PyStr(inc0) ELSE <<"++">>
              IN <<"for", " ", "(", "my", " ">> \o var_name \o <<" ", "=", " ">> \o start_s
                   \o <<";", " ">> \o var_name \o <<" ">> \o cmp_op \o <<" ">> \o end_s
                   \o <<";", " ">> \o var_name \o inc_expr \o <<")", " ", "{">>

ContainerKinds ==
    {BLOCK_EVENT, BLOCK_IF, BLOCK_WHILE, BLOCK_FOREACH, BLOCK_ELSIF, BLOCK_ELSE, BLOCK_FOR}

\* a leaf kind: the lines it emits, or what it raised
LeafLines(block, reg, indent) ==
    LET t == block.type
        p == block.params
    IN CASE t = BLOCK_NEXT ->
              LET expr == strip(PyStr(Get(p, "expr", S(<<>>)))) IN
              IF expr # <<>> THEN Ok(<<emit(<<"next", " ">> \o expr \o <<";">>, indent)>>)
              ELSE Ok(<<emit(<<"next", ";">>, indent)>>)
         [] t = BLOCK_QUEST_CALL ->
              Ok(<<emit(<<"quest", "::">> \o PyStr(Get(p, "quest_fn", S(<<"say">>)))
                    \o <<"(">> \o PyStr(Get(p, "args", S(<<"\"", "Hello, world!", "\"">>)))
                    \o <<")", ";">>, indent)>>)
         [] t = BLOCK_SET_VAR ->
              Ok(<<emit(PyStr(Get(p, "var_name", S(<<"$myvar">>))) \o <<" ", "=", " ">>
                    \o PyStr(Get(p, "value", S(<<"0">>))) \o <<";">>, indent)>>)
         [] t = BLOCK_ARRAY_ASSIGN ->
              Ok(<<emit(PyStr(Get(p, "lhs", S(<<"$hash", "{", "$key", "}">>))) \o <<" ", "=", " ">>
                    \o PyStr(Get(p, "value", S(<<"0">>))) \o <<";">>, indent)>>)
         [] t = BLOCK_MY_VAR -> Ok(<<emit(DeclLine("my", p, <<"$myvar">>), indent)>>)
         [] t = BLOCK_OUR_VAR -> Ok(<<emit(DeclLine("our", p, <<"$OurVar">>), indent)>>)
         [] t = BLOCK_SET_BUCKET ->
              LET key == PyStrip(OrDefault(Get(p, "key", None), <<"\"", "my_bucket", "\"">>))
                  value == PyStrip(OrDefault(Get(p, "value", None), <<"\"", "\"">>))
              IN IF ~key.ok THEN key
                 ELSE IF ~value.ok THEN value
                 ELSE Ok(<<emit(<<"quest", "::", "set_data", "(">> \o key.v \o <<",", " ">>
                              \o value.v \o <<")", ";">>, indent)>>)
         [] t = BLOCK_GET_BUCKET ->
              LET key == PyStrip(OrDefault(Get(p, "key", None), <<"\"", "my_bucket", "\"">>))
                  var_name == PyStrip(OrDefault(Get(p, "var_name", None), <<"$value">>))
              IN IF ~key.ok THEN key
                 ELSE IF ~var_name.ok THEN var_name
                 ELSE Ok(<<emit(var_name.v \o <<" ", "=", " ", "quest", "::", "get_data", "(">>
                              \o key.v \o <<")", ";">>, indent)>>)
         [] t = BLOCK_DELETE_BUCKET ->
              LET key == PyStrip(OrDefault(Get(p, "key", None), <<"\"", "my_bucket", "\"">>))
              IN IF ~key.ok THEN key
                 ELSE Ok(<<emit(<<"quest", "::", "delete_data", "(">> \o key.v \o <<")", ";">>,
                              indent)>>)
         [] t = BLOCK_TIMER ->
              LET name == PyStr(Get(p, "name", S(<<"my_timer">>)))
                  seconds == PyInt(Get(p, "seconds", I(10)))
              IN IF ~seconds.ok THEN seconds
                 ELSE Ok(<<emit(<<"quest", "::", "settimer", "(", "\"">> \o name
                              \o <<"\"", ",", " ">> \o IntStr(seconds.v) \o <<")", ";">>, indent)>>)
         [] t = BLOCK_RETURN ->
              LET val == strip(PyStr(Get(p, "value", S(<<>>)))) IN
              IF val # <<>> THEN Ok(<<emit(<<"return", " ">> \o val \o <<";">>, indent)>>)
              ELSE Ok(<<emit(<<"return", ";">>, indent)>>)
         [] t = BLOCK_COMMENT ->
              LET txt == Get(p, "text", S(<<>>))
                  st == PyStrip(txt)
              IN IF ~st.ok THEN st
                 ELSE IF st.v = <<>> THEN Ok(<<emit(<<"#">>, indent)>>)
                 ELSE Ok(EmitAll(splitlines(txt.s), <<"#", " ">>, indent))
         [] t = BLOCK_PLUGIN ->
              LET pid == Get(p, "plugin_id", None) IN
              IF ~PyTruthy(pid) THEN Ok(<<>>)
              ELSE LET pdef == RegistryGet(reg, pid) IN
                   IF ~pdef.ok THEN UnknownPluginLines(pid, indent)
                   ELSE LET code == render_plugin_template(pdef.v.perl_template,
                                        Get(p, "plugin_params", D(<<>>)))
                        IN IF ~code.ok THEN code
                           ELSE Ok(PluginCodeLines(splitlines(code.v), indent))
         [] t = BLOCK_RAW_PERL ->
              LET code == Get(p, "code", S(<<>>)) IN
              IF code.t # "str" THEN Raise(<<"AttributeError", "splitlines">>)
              ELSE Ok(EmitAll(splitlines(code.s), <<>>, indent))
         [] t = BLOCK_METHOD ->
              LET target == PyStr(Get(p, "target", S(<<"$client">>)))
                  method == PyStr(Get(p, "method", S(<<"Message">>)))
                  args == PyStrip(Get(p, "args", S(<<>>)))
              IN IF ~args.ok THEN args
                 ELSE Ok(<<emit(target \o <<"->">> \o method \o <<"(">> \o args.v
                              \o <<")", ";">>, indent)>>)
         [] OTHER ->
              Ok(<<emit(<<"#", " ", "[Unknown block type:", " ", t, "]">>, indent)>>)

RECURSIVE render_block(_, _, _, _)
RECURSIVE RenderChildren(_, _, _, _)

\* for child in block.children: render_block(child, indent + 1)
RenderChildren(ar, reg, ids, indent) ==
    IF ids = <<>> THEN Ok(<<>>)
    ELSE LET first == render_block(ar, reg, Head(ids), indent) IN
         IF ~first.ok THEN first
         ELSE LET rest == RenderChildren(ar, reg, Tail(ids), indent) IN
              IF ~rest.ok THEN rest ELSE Ok(first.v \o rest.v)

render_block(ar, reg, id, indent) ==
    LET block == ar[id] IN
    IF block.type \in ContainerKinds
    THEN LET body == RenderChildren(ar, reg, block.children, indent + 1) IN
         IF ~body.ok THEN body
         ELSE Ok(<<emit(OpenerLine(block), indent)>> \o body.v \o <<emit(<<"}">>, indent)>>
                 \o (IF block.type = BLOCK_EVENT THEN <<emit(<<>>, indent)>> ELSE <<>>))
    ELSE LeafLines(block, reg, indent)

HeaderLine == <<"#", " ", "Generated by EQEmu Script Builder v1.2">>

\* generate_perl(blocks, plugins) with npc_id None: the text, or what it raised
generate_perl(ar, rts, reg) ==
    LET body == RenderChildren(ar, reg, rts, 0) IN
    IF ~body.ok THEN body
    ELSE Ok(join(GenStartLines \o <<HeaderLine, <<>>>> \o body.v))

\* ------------------------------------------------------------------------
\* validate_blocks
\* ------------------------------------------------------------------------
\* ValidationIssue(level, message, where, block_ref); detail holds what the
\* message interpolates, block_ref 0 stands for None
Issue(level, message, detail, where, block_ref) ==
    [level |-> level, message |-> message, detail |-> detail,
     where |-> where, block_ref |-> block_ref]

\* two steps in sequence: the second runs only if the first did not raise
Then(r1, r2) ==
    IF ~r1.ok THEN r1 ELSE IF ~r2.ok THEN r2 ELSE Ok(r1.v \o r2.v)

\* _walk_blocks: the blocks in depth-first pre-order
RECURSIVE _walk_blocks(_, _)
_walk_blocks(ar, ids) ==
    IF ids = <<>> THEN <<>>
    ELSE <<Head(ids)>> \o _walk_blocks(ar, ar[Head(ids)].children)
           \o _walk_blocks(ar, Tail(ids))

\* _has_suspicious_tokens; its first test ("$timer eq") can never succeed
\* (it asks for a quote after "$timer eq" and for none after it)
_has_suspicious_tokens(str) ==
    (IF \E i \in 1..(Len(str) - 1) : str[i] = ";" /\ str[i + 1] = ";"
     THEN <<"Contains ';;' (double semicolon).">> ELSE <<>>)
    \o
    (IF \E k \in 1..Len(splitlines(str)) : endswith(rstrip(splitlines(str)[k]), <<"\\">>)
     THEN <<"Line ends with '\\' (possible accidental escape).">> ELSE <<>>)

RECURSIVE InfoIssues(_, _, _)
InfoIssues(msgs, where, ref) ==
    IF msgs = <<>> THEN <<>>
    ELSE <<Issue("info", Head(msgs), <<>>, where, ref)>> \o InfoIssues(Tail(msgs), where, ref)

\* the issue lint_text files for one symbol pair
PairIssues(str, o, c, severity, too_many, missing, where, ref) ==
    LET r == _balanced_pairs(str, o, c) IN
    IF ~r.ok
    THEN <<Issue(severity, IF r.delta < 0 THEN too_many ELSE missing, <<>>, where, ref)>>
    ELSE IF r.delta # 0 THEN <<Issue(severity, missing, <<>>, where, ref)>>
    ELSE <<>>

\* lint_text(text, where_label, severity, block_ref, check_quotes, check_parens,
\* check_braces) for a str
lint_text(str, where, severity, ref, check_quotes, check_parens, check_braces) ==
    IF str = <<>> THEN <<>>
    ELSE (IF check_quotes /\ _unbalanced_quotes(str)
          THEN <<Issue(severity, "Unbalanced quotes (missing \" or ').", <<>>, where, ref)>>
          ELSE <<>>)
         \o (IF check_parens
             THEN PairIssues(str, "(", ")", severity,
                             "Too many ')' (parentheses close before open).",
                             "Unbalanced parentheses (missing ')').", where, ref)
             ELSE <<>>)
         \o (IF check_braces
             THEN PairIssues(str, "{", "}", severity,
                             "Too many '}' (brace close before open).",
                             "Unbalanced braces (missing '}').", where, ref)
             ELSE <<>>)
         \o InfoIssues(_has_suspicious_tokens(str), where, ref)

\* lint_text on a parameter value: a value that is not a str cannot be scanned
LintValue(x, where, severity, ref, check_quotes, check_parens, check_braces) ==
    IF ~PyTruthy(x) THEN Ok(<<>>)
    ELSE IF x.t # "str" THEN Raise(<<"TypeError", "object is not iterable">>)
    ELSE Ok(lint_text(x.s, where, severity, ref, check_quotes, check_parens, check_braces))

LabelOf(id) == <<"label">>

\* the ids of the top-level EVENT blocks
RECURSIVE EventRoots(_, _)
EventRoots(ar, ids) ==
    IF ids = <<>> THEN <<>>
    ELSE (IF ar[Head(ids)].type = BLOCK_EVENT THEN <<Head(ids)>> ELSE <<>>)
         \o EventRoots(ar, Tail(ids))

\* 1) basic structure
CheckStructure(ar, rts) ==
    IF EventRoots(ar, rts) = <<>>
    THEN Ok(<<Issue("warn", "No EVENT block found (script will do nothing).", <<>>,
                    <<"root">>, 0)>>)
    ELSE Ok(<<>>)

\* (b.params.get("event_name") or "").strip() of the top-level EVENT blocks
RECURSIVE EventNames(_, _)
EventNames(ar, evs) ==
    IF evs = <<>> THEN Ok(<<>>)
    ELSE LET ev == PyStrip(OrDefault(Get(ar[Head(evs)].params, "event_name", None), <<>>)) IN
         IF ~ev.ok THEN ev
         ELSE Then(Ok(IF ev.v # <<>> THEN <<ev.v>> ELSE <<>>), EventNames(ar, Tail(evs)))

Occurrences(names, ev) == Cardinality({k \in 1..Len(names) : names[k] = ev})

\* counts.items(): one issue per name counted twice or more, in first-seen order
RECURSIVE DuplicateIssues(_, _)
DuplicateIssues(names, k) ==
    IF k > Len(names) THEN <<>>
    ELSE (IF /\ \A j \in 1..(k - 1) : names[j] # names[k]
             /\ Occurrences(names, names[k]) > 1
          THEN <<Issue("warn", "Duplicate top-level handler",
                       names[k] \o <<ToString(Occurrences(names, names[k]))>>, names[k], 0)>>
          ELSE <<>>)
         \o DuplicateIssues(names, k + 1)

\* 2) duplicate top-level EVENT_* blocks
CheckDuplicates(ar, rts) ==
    LET names == EventNames(ar, EventRoots(ar, rts)) IN
    IF ~names.ok THEN names ELSE Ok(DuplicateIssues(names.v, 1))

\* 3) plugin template checks, for one block
CheckPlugin(ar, reg, id) ==
    LET b == ar[id]
        pid == Get(b.params, "plugin_id", None)
    IN IF b.type # BLOCK_PLUGIN THEN Ok(<<>>)
       ELSE IF ~PyTruthy(pid)
            THEN Ok(<<Issue("error", "Plugin block has no plugin selected.", <<>>,
                            LabelOf(id), id)>>)
       ELSE LET pdef == RegistryGet(reg, pid) IN
            IF ~pdef.ok
            THEN Ok(<<Issue("error", "Unknown plugin_id (not found in plugins.json).",
                            PyStr(pid), LabelOf(id), id)>>)
            ELSE LET pp0 == Get(b.params, "plugin_params", D(<<>>))
                     plugin_params == IF PyTruthy(pp0) THEN pp0 ELSE D(<<>>)
                     r == render_plugin_template(pdef.v.perl_template, plugin_params)
                 IN IF ~r.ok
                    THEN Ok(<<Issue("error", "Plugin template render failed", r.exc,
                                    LabelOf(id), id)>>)
                    ELSE Ok(<<>>)

\* for b in _walk_blocks(blocks): the plugin checks
RECURSIVE CheckPlugins(_, _, _)
CheckPlugins(ar, reg, ids) ==
    IF ids = <<>> THEN Ok(<<>>)
    ELSE Then(CheckPlugin(ar, reg, Head(ids)), CheckPlugins(ar, reg, Tail(ids)))

\* the stripped timer name of a timer block
TimerName(b) == PyStrip(OrDefault(Get(b.params, "name", None), <<>>))

\* 4) timer checks, for one block
CheckTimer(ar, reg, id) ==
    LET b == ar[id]
        name == TimerName(b)
        secs == Get(b.params, "seconds", None)
    IN IF b.type # BLOCK_TIMER THEN Ok(<<>>)
       ELSE IF ~name.ok THEN name
       ELSE Ok((IF name.v = <<>>
                THEN <<Issue("error", "Timer block missing timer name.", <<>>, LabelOf(id), id)>>
                ELSE <<>>)
               \o (IF secs.t = "none"
                   THEN <<Issue("error", "Timer seconds must be >= 0.", <<>>, LabelOf(id), id)>>
                   ELSE IF ~PyInt(secs).ok
                        THEN <<Issue("error", "Timer seconds is not an integer.", <<>>,
                                     LabelOf(id), id)>>
                   ELSE IF PyInt(secs).v < 0
                        THEN <<Issue("error", "Timer seconds must be >= 0.", <<>>,
                                     LabelOf(id), id)>>
                   ELSE <<>>))

\* for b in _walk_blocks(blocks): the timer checks
RECURSIVE CheckTimerBlocks(_, _, _)
CheckTimerBlocks(ar, reg, ids) ==
    IF ids = <<>> THEN Ok(<<>>)
    ELSE Then(CheckTimer(ar, reg, Head(ids)), CheckTimerBlocks(ar, reg, Tail(ids)))

\* timer_sets is not empty
TimersSet(ar, rts) ==
    \E k \in 1..Len(_walk_blocks(ar, rts)) :
        LET b == ar[_walk_blocks(ar, rts)[k]] IN
        b.type = BLOCK_TIMER /\ TimerName(b).ok /\ TimerName(b).v # <<>>

has_event_timer(ar, rts) ==
    \E k \in 1..Len(rts) :
        /\ ar[rts[k]].type = BLOCK_EVENT
        /\ Get(ar[rts[k]].params, "event_name", None) = S(<<"EVENT_TIMER">>)

CheckTimers(ar, reg, rts) ==
    Then(CheckTimerBlocks(ar, reg, _walk_blocks(ar, rts)),
         Ok(IF TimersSet(ar, rts) /\ ~has_event_timer(ar, rts)
            THEN <<Issue("warn", "You set timers but have no EVENT_TIMER handler.", <<>>,
                         <<"root">>, 0)>>
            ELSE <<>>))

\* 5) per-block lint, for one block
CheckLint(ar, reg, id) ==
    LET b == ar[id] IN
    IF b.type = BLOCK_RAW_PERL
    THEN LintValue(Get(b.params, "code", None), LabelOf(id), "warn", id, TRUE, FALSE, FALSE)
    ELSE Then(
           IF b.type \in {BLOCK_IF, BLOCK_WHILE}
           THEN LET expr == PyStrip(OrDefault(Get(b.params, "expr", None), <<>>)) IN
                IF ~expr.ok THEN expr
                ELSE IF expr.v = <<>>
                     THEN Ok(<<Issue("error", "Empty condition expression.", <<>>,
                                     LabelOf(id), id)>>)
                ELSE Ok(lint_text(expr.v, LabelOf(id), "warn", id, TRUE, TRUE, TRUE))
           ELSE Ok(<<>>),
           IF b.type = BLOCK_QUEST_CALL
           THEN LintValue(Get(b.params, "args", None), LabelOf(id), "warn", id, TRUE, TRUE, TRUE)
           ELSE Ok(<<>>))

\* for b in _walk_blocks(blocks): the per-block lint
RECURSIVE CheckLints(_, _, _)
CheckLints(ar, reg, ids) ==
    IF ids = <<>> THEN Ok(<<>>)
    ELSE Then(CheckLint(ar, reg, Head(ids)), CheckLints(ar, reg, Tail(ids)))

\* the issue filed for one symbol pair of the whole script
WholePairIssues(str, o, c, too_many, missing, unbalanced) ==
    LET r == _balanced_pairs(str, o, c) IN
    IF ~r.ok
    THEN <<Issue("error", IF r.delta < 0 THEN too_many ELSE missing, <<>>, <<"root">>, 0)>>
    ELSE IF r.delta # 0 THEN <<Issue("error", unbalanced, <<>>, <<"root">>, 0)>>
    ELSE <<>>

\* 6) the try around generate_perl: its exception becomes an issue
GenerateForLint(gen) ==
    IF ~gen.ok
    THEN Ok(<<Issue("error", "Failed to generate Perl for linting", gen.exc, <<"root">>, 0)>>)
    ELSE Ok(<<>>)

\* 6) whole-script lint of the generated text
CheckWholeScript(gen) ==
    IF ~gen.ok THEN GenerateForLint(gen)
    ELSE Ok((IF _unbalanced_quotes(gen.v)
             THEN <<Issue("error", "Whole script: unbalanced quotes.", <<>>, <<"root">>, 0)>>
             ELSE <<>>)
            \o WholePairIssues(gen.v, "(", ")", "Whole script: too many ')'.",
                               "Whole script: missing ')'.",
                               "Whole script: unbalanced parentheses.")
            \o WholePairIssues(gen.v, "{", "}", "Whole script: too many '}'.",
                               "Whole script: missing '}'.",
                               "Whole script: unbalanced braces."))

\* validate_blocks(blocks, plugin_registry): the issue list, or what it raised
validate_blocks(ar, rts, reg) ==
    Then(CheckStructure(ar, rts),
    Then(CheckDuplicates(ar, rts),
    Then(CheckPlugins(ar, reg, _walk_blocks(ar, rts)),
    Then(CheckTimers(ar, reg, rts),
    Then(CheckLints(ar, reg, _walk_blocks(ar, rts)),
         CheckWholeScript(generate_perl(ar, rts, reg)))))))

\* ------------------------------------------------------------------------
\* parse_perl_to_blocks: lexeme classes and the precompiled patterns
\* ------------------------------------------------------------------------
\* \$\w+
ScalarVars == {"$x", "$y", "$i", "$n", "$h", "$client", "$npc"}

\* [\$\@\%]\w+
SigilVars == ScalarVars \cup {"@a", "@list", "%h"}

\* EVENT_\w+
EventWords == {"EVENT_SAY", "EVENT_TIMER", "EVENT_SPAWN"}

\* \w+
Words ==
    {"sub", "if", "elsif", "else", "while", "foreach", "for", "my", "our",
     "return", "next", "quest", "plugin", "helper", "EVENT_", "say", "settimer",
     "set_data", "get_data", "delete_data", "SetBucket", "GetBucket",
     "DeleteBucket", "Message", "SayToClient", "Hi", "k", "v", "x", "foo",
     "note", "respawn", "abc", "bogus", "say_to_client", "deleted_plugin", "15"}
    \cup EventWords \cup Numerals \cup Identifiers

IsWord(t) == t \in Words

\* the lexeme at position i, "" past either end
At(str, i) == IF i \in 1..Len(str) THEN str[i] ELSE ""

\* the lexemes of p stand at positions i, i + 1, ...
StartsAt(str, i, p) == \A k \in 1..Len(p) : At(str, i + k - 1) = p[k]

\* \s* from position i on: the first position it does not take
RECURSIVE SkipWs(_, _)
SkipWs(str, i) ==
    IF i <= Len(str) /\ IsSpace(str[i]) THEN SkipWs(str, i + 1) ELSE i

\* \b after the word at position i
WordBoundary(str, i) == ~IsWord(At(str, i + 1))

Max(set) == CHOOSE x \in set : \A y \in set : y <= x
Min(set) == CHOOSE x \in set : \A y \in set : x <= y

\* the positions of lexeme t from position i on
Positions(str, t, i) == {p \in i..Len(str) : str[p] = t}

NoMatch == [m |-> FALSE, g |-> <<>>]
Match(groups) == [m |-> TRUE, g |-> groups]

\* re_sub_event = ^sub\s+(EVENT_\w+)\s*{
re_sub_event(str) ==
    LET j == SkipWs(str, 3)
        k == SkipWs(str, j + 1)
    IN IF /\ At(str, 1) = "sub" /\ IsSpace(At(str, 2))
          /\ At(str, j) \in EventWords /\ At(str, k) = "{"
       THEN Match(<<<<str[j]>>>>) ELSE NoMatch

\* re_sub_any = ^sub\s+(\w+)\s*{
re_sub_any(str) ==
    LET j == SkipWs(str, 3)
        k == SkipWs(str, j + 1)
    IN IF /\ At(str, 1) = "sub" /\ IsSpace(At(str, 2))
          /\ IsWord(At(str, j)) /\ At(str, k) = "{"
       THEN Match(<<<<str[j]>>>>) ELSE NoMatch

\* re_next = ^next\b(.*);$
re_next(str) ==
    IF /\ At(str, 1) = "next" /\ WordBoundary(str, 1)
       /\ Len(str) >= 2 /\ str[Len(str)] = ";"
    THEN Match(<<SubSeq(str, 2, Len(str) - 1)>>) ELSE NoMatch

\* ^kw\s*\((.+)\)\s*{ for re_if, re_elsif and re_while: the greedy group
\* ends at the last ")" that is followed by \s*{
CondOpener(str, kw) ==
    LET j == SkipWs(str, 2)
        ends == {p \in Positions(str, ")", j + 2) : At(str, SkipWs(str, p + 1)) = "{"}
    IN IF At(str, 1) = kw /\ At(str, j) = "(" /\ ends # {}
       THEN Match(<<SubSeq(str, j + 1, Max(ends) - 1)>>) ELSE NoMatch

re_if(str) == CondOpener(str, "if")
re_elsif(str) == CondOpener(str, "elsif")
re_while(str) == CondOpener(str, "while")

\* re_else = ^\s*else\s*\{
re_else(str) ==
    IF At(str, 1) = "else" /\ At(str, SkipWs(str, 2)) = "{" THEN Match(<<>>) ELSE NoMatch

\* the last position before i that \s* does not take, going backwards
RECURSIVE SkipWsBack(_, _)
SkipWsBack(str, i) ==
    IF i >= 1 /\ IsSpace(str[i]) THEN SkipWsBack(str, i - 1) ELSE i

\* re_foreach = ^foreach\s+my\s+(\$\w+)\s*\((.+)\)\s*{$
re_foreach(str) ==
    LET j == SkipWs(str, 3)
        k == SkipWs(str, j + 2)
        l == SkipWs(str, k + 1)
        p == SkipWsBack(str, Len(str) - 1)
    IN IF /\ At(str, 1) = "foreach" /\ IsSpace(At(str, 2))
          /\ At(str, j) = "my" /\ IsSpace(At(str, j + 1))
          /\ At(str, k) \in ScalarVars
          /\ At(str, l) = "("
          /\ At(str, Len(str)) = "{"
          /\ At(str, p) = ")" /\ p >= l + 2
       THEN Match(<<<<str[k]>>, SubSeq(str, l + 1, p - 1)>>) ELSE NoMatch

\* \s*([^;]+); from position i: the group, and the position of the ";".
\* \s* gives one blank back when nothing else is left for the group.
UpToSemicolon(str, i) ==
    LET s0 == SkipWs(str, i)
        s == IF At(str, s0) = ";" /\ s0 > i THEN s0 - 1 ELSE s0
        semis == Positions(str, ";", s)
    IN IF semis # {} /\ Min(semis) > s
       THEN [m |-> TRUE, g |-> SubSeq(str, s, Min(semis) - 1), at |-> Min(semis)]
       ELSE [m |-> FALSE, g |-> <<>>, at |-> 0]

\* (\+\+|\-\-|\+=\s*[^)]+|-=\s*[^)]+)\s*\)\s*{ from position i
ForIncrement(str, i) ==
    LET close == Positions(str, ")", i + 2)
    IN IF /\ At(str, i) \in {"++", "--"}
          /\ At(str, SkipWs(str, i + 1)) = ")"
          /\ At(str, SkipWs(str, SkipWs(str, i + 1) + 1)) = "{"
       THEN Match(<<<<str[i]>>>>)
       ELSE IF /\ At(str, i) \in {"+", "-"} /\ At(str, i + 1) = "="
               /\ close # {} /\ Min(close) >= i + 3
               /\ At(str, SkipWs(str, Min(close) + 1)) = "{"
            THEN Match(<<SubSeq(str, i, Min(close) - 1)>>)
            ELSE NoMatch

\* \s*([^;]+);\s*\1\s*(increment)\s*\)\s*{ from position i, for the variable v
ForTail(str, i, v) ==
    LET e == UpToSemicolon(str, i)
        j == SkipWs(str, e.at + 1)
        inc == ForIncrement(str, SkipWs(str, j + 1))
    IN IF e.m /\ At(str, j) = v /\ inc.m
       THEN Match(<<e.g, inc.g[1]>>) ELSE NoMatch

\* re_for = ^for\s*\(\s*my\s+(\$\w+)\s*=\s*([^;]+);\s*\1\s*(<=|<)\s*([^;]+);
\*          \s*\1\s*(\+\+|\-\-|\+=\s*[^)]+|-=\s*[^)]+)\s*\)\s*{
re_for(str) ==
    LET j1 == SkipWs(str, 2)
        j2 == SkipWs(str, j1 + 1)
        j3 == SkipWs(str, j2 + 2)
        j4 == SkipWs(str, j3 + 1)
        start == UpToSemicolon(str, j4 + 1)
        j6 == SkipWs(str, start.at + 1)
        j7 == SkipWs(str, j6 + 1)
        le == ForTail(str, j7 + 2, At(str, j3))
        lt == ForTail(str, j7 + 1, At(str, j3))
    IN IF /\ At(str, 1) = "for" /\ At(str, j1) = "("
          /\ At(str, j2) = "my" /\ IsSpace(At(str, j2 + 1))
          /\ At(str, j3) \in ScalarVars
          /\ At(str, j4) = "="
          /\ start.m
          /\ At(str, j6) = At(str, j3)
          /\ At(str, j7) = "<"
       THEN IF At(str, j7 + 1) = "=" /\ le.m
            THEN Match(<<<<str[j3]>>, start.g, <<"<", "=">>, le.g[1], le.g[2]>>)
            ELSE IF lt.m
                 THEN Match(<<<<str[j3]>>, start.g, <<"<">>, lt.g[1], lt.g[2]>>)
                 ELSE NoMatch
       ELSE NoMatch

\* "([^"]+)" or "([^"]*)" from position i, where the opening quote is: the
\* group and the position of the closing quote
Quoted(str, i, least) ==
    LET close == Positions(str, "\"", i + 1)
    IN IF At(str, i) = "\"" /\ close # {} /\ Min(close) >= i + 1 + least
       THEN [m |-> TRUE, g |-> SubSeq(str, i + 1, Min(close) - 1), at |-> Min(close)]
       ELSE [m |-> FALSE, g |-> <<>>, at |-> 0]

\* re_settimer = ^quest::settimer\(\s*"([^"]+)"\s*,\s*([0-9_]+)\s*\);
re_settimer(str) ==
    LET name == Quoted(str, SkipWs(str, 5), 1)
        k == SkipWs(str, name.at + 1)
        l == SkipWs(str, k + 1)
        n == SkipWs(str, l + 1)
    IN IF /\ StartsAt(str, 1, <<"quest", "::", "settimer", "(">>)
          /\ name.m
          /\ At(str, k) = ","
          /\ At(str, l) \in Numerals
          /\ At(str, n) = ")" /\ At(str, n + 1) = ";"
       THEN Match(<<name.g, <<str[l]>>>>) ELSE NoMatch

\* \((.*)\); with the "(" at position i: the greedy group ends at the last ");"
CallArgs(str, i) ==
    LET ends == {p \in Positions(str, ")", i + 1) : At(str, p + 1) = ";"}
    IN IF At(str, i) = "(" /\ ends # {}
       THEN Match(<<SubSeq(str, i + 1, Max(ends) - 1)>>) ELSE NoMatch

\* re_quest = ^quest::(\w+)\((.*)\);
re_quest(str) ==
    IF /\ At(str, 1) = "quest" /\ At(str, 2) = "::" /\ IsWord(At(str, 3))
       /\ CallArgs(str, 4).m
    THEN Match(<<<<str[3]>>, CallArgs(str, 4).g[1]>>) ELSE NoMatch

\* ;\s*(?:#.*)?$ with the ";" at position p
DeclTail(str, p) ==
    /\ At(str, p) = ";"
    /\ LET t == SkipWs(str, p + 1) IN t > Len(str) \/ str[t] = "#"

\* re_my, re_our = ^kw\s+([\$\@\%]\w+)\s*(?:=\s*(.+?))?;\s*(?:#.*)?$
\* The second group is None (no "=") or the shortest text up to a ";" the
\* rest of the line allows as the terminator.
Declaration(str, kw) ==
    LET j == SkipWs(str, 3)
        k == SkipWs(str, j + 1)
        s == SkipWs(str, k + 1)
        ends == {p \in (s + 1)..Len(str) : DeclTail(str, p)}
    IN IF ~(At(str, 1) = kw /\ IsSpace(At(str, 2)) /\ At(str, j) \in SigilVars)
       THEN NoMatch
       ELSE IF At(str, k) = "=" /\ ends # {}
            THEN Match(<<S(<<str[j]>>), S(SubSeq(str, s, Min(ends) - 1))>>)
       ELSE IF At(str, k) = "=" /\ s > k + 1 /\ DeclTail(str, s)
            THEN Match(<<S(<<str[j]>>), S(<<str[s - 1]>>)>>)
       ELSE IF DeclTail(str, k)
            THEN Match(<<S(<<str[j]>>), None>>)
       ELSE NoMatch

re_my(str) == Declaration(str, "my")
re_our(str) == Declaration(str, "our")

\* re_multiline_decl_start = ^(my|our)\s+([\$\@\%]\w+)\s*=\s*\(\s*$
re_multiline_decl_start(str) ==
    LET j == SkipWs(str, 3)
        k == SkipWs(str, j + 1)
        l == SkipWs(str, k + 1)
    IN IF /\ At(str, 1) \in {"my", "our"} /\ IsSpace(At(str, 2))
          /\ At(str, j) \in SigilVars
          /\ At(str, k) = "="
          /\ At(str, l) = "(" /\ SkipWs(str, l + 1) > Len(str)
       THEN Match(<<<<str[1]>>, <<str[j]>>>>) ELSE NoMatch

\* =\s*(.+); with the "=" at position k: the greedy group ends at the last
\* ";" (last: the ";" that ends the line, for the patterns closed by $)
Assigned(str, k, last) ==
    LET s == SkipWs(str, k + 1)
        semis == IF last THEN Positions(str, ";", Len(str)) ELSE Positions(str, ";", 1)
        ends == {p \in semis : p > s}
    IN IF At(str, k) # "=" THEN NoMatch
       ELSE IF ends # {} THEN Match(<<SubSeq(str, s, Max(ends) - 1)>>)
       ELSE IF s > k + 1 /\ s \in semis THEN Match(<<<<str[s - 1]>>>>)
       ELSE NoMatch

\* re_setvar = ^(\$\w+)\s*=\s*(.+);
re_setvar(str) ==
    LET v == Assigned(str, SkipWs(str, 2), FALSE) IN
    IF At(str, 1) \in ScalarVars /\ v.m
    THEN Match(<<<<str[1]>>, v.g[1]>>) ELSE NoMatch

\* re_bucket_set = ^\$npc->SetBucket\("([^"]+)"\s*,\s*"([^"]*)"\);
re_bucket_set(str) ==
    LET key == Quoted(str, 5, 1)
        k == SkipWs(str, key.at + 1)
        value == Quoted(str, SkipWs(str, k + 1), 0)
    IN IF /\ StartsAt(str, 1, <<"$npc", "->", "SetBucket", "(">>)
          /\ key.m /\ At(str, k) = "," /\ value.m
          /\ At(str, value.at + 1) = ")" /\ At(str, value.at + 2) = ";"
       THEN Match(<<key.g, value.g>>) ELSE NoMatch

\* re_bucket_get = ^(\$\w+)\s*=\s*\$npc->GetBucket\("([^"]+)"\);
re_bucket_get(str) ==
    LET k == SkipWs(str, 2)
        s == SkipWs(str, k + 1)
        key == Quoted(str, s + 4, 1)
    IN IF /\ At(str, 1) \in ScalarVars /\ At(str, k) = "="
          /\ StartsAt(str, s, <<"$npc", "->", "GetBucket", "(">>)
          /\ key.m
          /\ At(str, key.at + 1) = ")" /\ At(str, key.at + 2) = ";"
       THEN Match(<<<<str[1]>>, key.g>>) ELSE NoMatch

\* re_bucket_delete = ^\$npc->DeleteBucket\("([^"]+)"\);
re_bucket_delete(str) ==
    LET key == Quoted(str, 5, 1) IN
    IF /\ StartsAt(str, 1, <<"$npc", "->", "DeleteBucket", "(">>)
       /\ key.m
       /\ At(str, key.at + 1) = ")" /\ At(str, key.at + 2) = ";"
    THEN Match(<<key.g>>) ELSE NoMatch

\* re_array_assign = ^(\$\w+\s*\{\s*[^}]+\s*\})\s*=\s*(.+);$
re_array_assign(str) ==
    LET b == SkipWs(str, 2)
        close == Positions(str, "}", b + 1)
        q == IF close = {} THEN 0 ELSE Min(close)
        v == Assigned(str, SkipWs(str, q + 1), TRUE)
    IN IF /\ At(str, 1) \in ScalarVars /\ At(str, b) = "{"
          /\ q >= b + 2
          /\ v.m
       THEN Match(<<SubSeq(str, 1, q), v.g[1]>>) ELSE NoMatch

\* re_method = ^(\$\w+)->(\w+)\((.*)\);
re_method(str) ==
    IF /\ At(str, 1) \in ScalarVars /\ At(str, 2) = "->" /\ IsWord(At(str, 3))
       /\ CallArgs(str, 4).m
    THEN Match(<<<<str[1]>>, <<str[3]>>, CallArgs(str, 4).g[1]>>) ELSE NoMatch

\* re_return = ^return\b(.*);? -- the greedy group takes the rest of the line
re_return(str) ==
    IF At(str, 1) = "return" /\ WordBoundary(str, 1)
    THEN Match(<<SubSeq(str, 2, Len(str))>>) ELSE NoMatch

\* ------------------------------------------------------------------------
\* parse_perl_to_blocks: the recognizers built from the plugin catalog
\* ------------------------------------------------------------------------
\* the catalog sorted the other way round
list_plugins_Reversed(reg) ==
    CHOOSE seq \in [1..Cardinality(reg) -> reg] :
        \A i, j \in 1..Cardinality(reg) :
            i < j => seq[i] # seq[j] /\ seq[i].name >= seq[j].name

\* registry.list_plugins(): sorted by name.lower()
RECURSIVE list_plugins(_)
list_plugins(reg) ==
    IF reg = {} THEN <<>>
    ELSE LET first == CHOOSE p \in reg : \A q \in reg : p.name <= q.name
         IN <<first>> \o list_plugins(reg \ {first})

\* lexemes the replacement template of re.sub rejects after a backslash
\* (\q: bad escape, \1: a group the pattern does not have)
BadEscapes == {"q", "1"}

\* the replacement template (?P<name>.+?) does not parse
ReplTemplateFails(name) ==
    \E i \in 1..(Len(name) - 1) : name[i] = "\\" /\ name[i + 1] \in BadEscapes

\* the name is one the pattern compiler accepts for a group
GroupNameOk(name) == Len(name) = 1 /\ name[1] \in Identifiers

\* re.escape(template): one literal element per lexeme
RECURSIVE EscapeTemplate(_)
EscapeTemplate(template) ==
    IF template = <<>> THEN <<>>
    ELSE <<[e |-> "lit", x |-> <<Head(template)>>]>> \o EscapeTemplate(Tail(template))

\* the literal elements from position i on spell the placeholder
SpellsAt(pattern, i, placeholder) ==
    /\ i + Len(placeholder) - 1 <= Len(pattern)
    /\ \A k \in 1..Len(placeholder) :
          pattern[i + k - 1] = [e |-> "lit", x |-> <<placeholder[k]>>]

\* re.sub(placeholder_in_pattern, "(?P<name>.+?)", pattern)
RECURSIVE SubGroup(_, _, _, _)
SubGroup(pattern, i, placeholder, name) ==
    IF i > Len(pattern) THEN <<>>
    ELSE IF SpellsAt(pattern, i, placeholder)
         THEN <<[e |-> "group", x |-> name]>>
              \o SubGroup(pattern, i + Len(placeholder), placeholder, name)
         ELSE <<pattern[i]>> \o SubGroup(pattern, i + 1, placeholder, name)

\* for param in p.params: the pattern after the substitutions, or what raised
RECURSIVE SubParams(_, _)
SubParams(pattern, params) ==
    IF params = <<>> THEN Ok(pattern)
    ELSE LET param == Head(params) IN
         IF "name" \notin DOMAIN param THEN Raise(<<"KeyError", "name">>)
         ELSE IF ReplTemplateFails(param.name)
              THEN Raise(<<"re.error", "bad escape">>)
         ELSE SubParams(SubGroup(pattern, 1, <<"{">> \o param.name \o <<"}">>, param.name),
                        Tail(params))

\* pattern.replace(r"\ ", r"\s*")
RECURSIVE ReplaceBlanks(_)
ReplaceBlanks(pattern) ==
    IF pattern = <<>> THEN <<>>
    ELSE <<(IF Head(pattern) = [e |-> "lit", x |-> <<" ">>]
            THEN [e |-> "ws", x |-> <<>>] ELSE Head(pattern))>>
         \o ReplaceBlanks(Tail(pattern))

\* re.compile("^" + pattern + "$") raises re.error
CompileFails(pattern) ==
    \/ \E i \in 1..Len(pattern) : pattern[i].e = "group" /\ ~GroupNameOk(pattern[i].x)
    \/ \E i, j \in 1..Len(pattern) :
          i # j /\ pattern[i].e = "group" /\ pattern[j].e = "group"
          /\ pattern[i].x = pattern[j].x

\* the loop over registry.list_plugins(): plugin_patterns, or what raised
RECURSIVE BuildPatterns(_)
BuildPatterns(plugins) ==
    IF plugins = <<>> THEN Ok(<<>>)
    ELSE LET p == Head(plugins)
             subbed == SubParams(EscapeTemplate(strip(p.perl_template)), p.params)
             rest == BuildPatterns(Tail(plugins))
         IN IF ~subbed.ok THEN subbed
            ELSE IF ~rest.ok THEN rest
            ELSE IF CompileFails(ReplaceBlanks(subbed.v)) THEN rest
            ELSE Ok(<<[pdef |-> p, regex |-> ReplaceBlanks(subbed.v)]>> \o rest.v)

\* pregex.match(stripped) from element i of the pattern and position j of the
\* line on: \s* takes the longest run it can, a group (.+?) the shortest
RECURSIVE PatternMatch(_, _, _, _)
RECURSIVE TryLengths(_, _, _, _, _, _)
TryLengths(pattern, i, str, j, n, step) ==
    IF n < 0 \/ j + n > Len(str) + 1 THEN NoMatch
    ELSE IF pattern[i].e = "ws" /\ \E k \in j..(j + n - 1) : ~IsSpace(str[k])
         THEN TryLengths(pattern, i, str, j, n + step, step)
    ELSE LET rest == PatternMatch(pattern, i + 1, str, j + n) IN
         IF ~rest.m THEN TryLengths(pattern, i, str, j, n + step, step)
         ELSE IF pattern[i].e = "group"
              THEN Match((pattern[i].x[1] :> S(SubSeq(str, j, j + n - 1))) @@ rest.g)
              ELSE rest

PatternMatch(pattern, i, str, j) ==
    IF i > Len(pattern) THEN (IF j = Len(str) + 1 THEN Match(<<>>) ELSE NoMatch)
    ELSE IF pattern[i].e = "lit"
         THEN (IF At(str, j) = pattern[i].x[1]
               THEN PatternMatch(pattern, i + 1, str, j + 1) ELSE NoMatch)
    ELSE IF pattern[i].e = "ws"
         THEN TryLengths(pattern, i, str, j, Len(str) + 1 - j, -1)
    ELSE TryLengths(pattern, i, str, j, 1, 1)

\* for pdef, pregex in plugin_patterns: the first recognizer that matches
RECURSIVE MatchPlugins(_, _)
MatchPlugins(plugin_patterns, str) ==
    IF plugin_patterns = <<>> THEN NoMatch
    ELSE LET r == PatternMatch(Head(plugin_patterns).regex, 1, str, 1) IN
         IF r.m THEN Match(<<Head(plugin_patterns).pdef.plugin_id, r.g>>)
         ELSE MatchPlugins(Tail(plugin_patterns), str)

\* ------------------------------------------------------------------------
\* parse_perl_to_blocks: the parser state and the loop over the lines
\* ------------------------------------------------------------------------
\* the locals of parse_perl_to_blocks before the loop; arena holds the Block
\* objects made so far, blocks and stack hold their identities
InitParser ==
    [arena |-> <<>>, blocks |-> <<>>, stack |-> <<>>,
     comment_accum |-> <<>>,
     custom_sub_name |-> None, custom_sub_lines |-> <<>>, custom_sub_depth |-> 0,
     multiline_decl_kind |-> None, multiline_var_name |-> None,
     multiline_lines |-> <<>>]

\* an add_block that appends every block to the top-level list
add_block_Root(st, b) ==
    [st EXCEPT !.arena = Append(@, b), !.blocks = Append(@, Len(st.arena) + 1)]

\* add_block(b)
add_block(st, b) ==
    LET id == Len(st.arena) + 1 IN
    IF st.stack # <<>>
    THEN [st EXCEPT !.arena = Append([@ EXCEPT ![st.stack[Len(st.stack)]].children
                                                   = Append(@, id)], b)]
    ELSE [st EXCEPT !.arena = Append(@, b), !.blocks = Append(@, id)]

\* stack.append(b) for the block add_block has just made
push_last(st) == [st EXCEPT !.stack = Append(@, Len(st.arena))]

\* stack.pop()
pop(st) == [st EXCEPT !.stack = SubSeq(@, 1, Len(@) - 1)]

\* flush_multiline_decl()
flush_multiline_decl(st) ==
    LET cleared == [st EXCEPT !.multiline_decl_kind = None,
                              !.multiline_var_name = None,
                              !.multiline_lines = <<>>]
    IN IF \/ ~PyTruthy(st.multiline_decl_kind)
          \/ ~PyTruthy(st.multiline_var_name)
          \/ st.multiline_lines = <<>>
       THEN cleared
       ELSE add_block(cleared,
                Block(BLOCK_RAW_PERL, [code |-> S(rstrip(join(st.multiline_lines)))], <<>>))

\* the end of the quoted string opened before position i, 0 if it is not closed
RECURSIVE QuoteEnd(_, _, _)
QuoteEnd(str, i, q) ==
    IF i > Len(str) THEN 0
    ELSE IF str[i] = q THEN i
    ELSE IF str[i] = "\\" THEN (IF i + 1 <= Len(str) THEN QuoteEnd(str, i + 2, q) ELSE 0)
    ELSE QuoteEnd(str, i + 1, q)

\* re.sub of the quoted strings of one quote type by the empty string
RECURSIVE RemoveQuoted(_, _, _)
RemoveQuoted(str, i, q) ==
    IF i > Len(str) THEN <<>>
    ELSE IF str[i] = q /\ QuoteEnd(str, i + 1, q) > 0
         THEN <<q, q>> \o RemoveQuoted(str, QuoteEnd(str, i + 1, q) + 1, q)
         ELSE <<str[i]>> \o RemoveQuoted(str, i + 1, q)

\* _strip_strings_and_comment(s)
_strip_strings_and_comment(str) ==
    LET hashes == Positions(str, "#", 1)
        code == IF hashes # {} THEN SubSeq(str, 1, Min(hashes) - 1) ELSE str
    IN RemoveQuoted(RemoveQuoted(code, 1, "\""), 1, "'")

\* _brace_delta(line)
_brace_delta(line) ==
    LET t == _strip_strings_and_comment(line) IN
    Cardinality(Positions(t, "{", 1)) - Cardinality(Positions(t, "}", 1))

\* flush_custom_sub()
flush_custom_sub(st) ==
    LET cleared == [st EXCEPT !.custom_sub_name = None,
                              !.custom_sub_lines = <<>>,
                              !.custom_sub_depth = 0]
    IN IF ~PyTruthy(st.custom_sub_name) \/ st.custom_sub_lines = <<>>
       THEN cleared
       ELSE add_block(cleared,
                Block(BLOCK_RAW_PERL, [code |-> S(rstrip(join(st.custom_sub_lines)))], <<>>))

\* flush_comment()
flush_comment(st) ==
    IF st.comment_accum = <<>> THEN st
    ELSE add_block([st EXCEPT !.comment_accum = <<>>],
                   Block(BLOCK_COMMENT, [text |-> S(join(st.comment_accum))], <<>>))

\* stripped.lstrip("#")
RECURSIVE lstrip_hash(_)
lstrip_hash(str) ==
    IF str # <<>> /\ Head(str) = "#" THEN lstrip_hash(Tail(str)) ELSE str

\* a conversion that keeps every bound as text
_to_int_or_str_KeepText(str) == S(strip(str))

\* _to_int_or_str(s)
_to_int_or_str(str) ==
    IF PyInt(S(str)).ok THEN I(PyInt(S(str)).v) ELSE S(strip(str))

\* int(sec.replace("_", "")) if sec.replace("_", "").isdigit() else 10
sec_val(sec) == IF sec \in Numerals THEN I(NumeralValue(sec)) ELSE I(10)

\* what a recognizer makes of a line: the block, and what the parser does
\* with it ("open": add and push; "chain": pop an open if/elsif, add and
\* push; "leaf": add)
Recognized(how, b) == [how |-> how, b |-> b]

\* the block of a my/our declaration
DeclBlock(type, m) ==
    LET value == IF m.g[2].t = "none" THEN <<>> ELSE strip(m.g[2].s) IN
    IF value # <<>>
    THEN Block(type, [var_name |-> m.g[1], value |-> S(value)], <<>>)
    ELSE Block(type, [var_name |-> m.g[1]], <<>>)

\* the recognizers of the loop body that make a block, from re_sub_event down
\* to the raw fallback, tried in the order of the code
Recognize(plugin_patterns, line, stripped) ==
    IF re_sub_event(stripped).m
    THEN Recognized("open", Block(BLOCK_EVENT,
             [event_name |-> S(strip(re_sub_event(stripped).g[1]))], <<>>))
    ELSE IF re_next(stripped).m
    THEN Recognized("leaf", Block(BLOCK_NEXT,
             [expr |-> S(strip(re_next(stripped).g[1]))], <<>>))
    ELSE IF re_if(stripped).m
    THEN Recognized("open", Block(BLOCK_IF,
             [expr |-> S(strip(re_if(stripped).g[1]))], <<>>))
    ELSE IF re_elsif(stripped).m
    THEN Recognized("chain", Block(BLOCK_ELSIF,
             [expr |-> S(strip(re_elsif(stripped).g[1]))], <<>>))
    ELSE IF re_else(stripped).m
    THEN Recognized("chain", Block(BLOCK_ELSE, <<>>, <<>>))
    ELSE IF re_while(stripped).m
    THEN Recognized("open", Block(BLOCK_WHILE,
             [expr |-> S(strip(re_while(stripped).g[1]))], <<>>))
    ELSE IF re_foreach(stripped).m
    THEN Recognized("open", Block(BLOCK_FOREACH,
             [var_name |-> S(strip(re_foreach(stripped).g[1])),
              list_expr |-> S(strip(re_foreach(stripped).g[2]))], <<>>))
    ELSE IF re_for(stripped).m
    THEN LET g == re_for(stripped).g IN
         Recognized("open", Block(BLOCK_FOR,
             [var_name |-> S(g[1]),
              start |-> _to_int_or_str(strip(g[2])),
              end |-> _to_int_or_str(strip(g[4])),
              cmp_op |-> S(strip(g[3])),
              inc_expr |-> S(strip(g[5]))], <<>>))
    ELSE IF re_settimer(stripped).m
    THEN LET g == re_settimer(stripped).g IN
         Recognized("leaf", Block(BLOCK_TIMER,
             [name |-> S(g[1]), seconds |-> sec_val(g[2][1])], <<>>))
    ELSE IF re_quest(stripped).m
    THEN LET g == re_quest(stripped).g IN
         Recognized("leaf", Block(BLOCK_QUEST_CALL,
             [quest_fn |-> S(strip(g[1])), args |-> S(strip(g[2]))], <<>>))
    ELSE IF re_my(stripped).m
    THEN Recognized("leaf", DeclBlock(BLOCK_MY_VAR, re_my(stripped)))
    ELSE IF re_our(stripped).m
    THEN Recognized("leaf", DeclBlock(BLOCK_OUR_VAR, re_our(stripped)))
    ELSE IF re_bucket_set(stripped).m
    THEN LET g == re_bucket_set(stripped).g IN
         Recognized("leaf", Block(BLOCK_SET_BUCKET,
             [key |-> S(g[1]), value |-> S(g[2])], <<>>))
    ELSE IF re_bucket_get(stripped).m
    THEN LET g == re_bucket_get(stripped).g IN
         Recognized("leaf", Block(BLOCK_GET_BUCKET,
             [key |-> S(g[2]), var_name |-> S(g[1])], <<>>))
    ELSE IF re_bucket_delete(stripped).m
    THEN Recognized("leaf", Block(BLOCK_DELETE_BUCKET,
             [key |-> S(re_bucket_delete(stripped).g[1])], <<>>))
    ELSE IF re_array_assign(stripped).m
    THEN LET g == re_array_assign(stripped).g IN
         Recognized("leaf", Block(BLOCK_ARRAY_ASSIGN,
             [lhs |-> S(strip(g[1])), value |-> S(strip(g[2]))], <<>>))
    ELSE IF re_setvar(stripped).m
    THEN LET g == re_setvar(stripped).g IN
         Recognized("leaf", Block(BLOCK_SET_VAR,
             [var_name |-> S(g[1]), value |-> S(strip(g[2]))], <<>>))
    ELSE IF re_method(stripped).m
    THEN LET g == re_method(stripped).g IN
         Recognized("leaf", Block(BLOCK_METHOD,
             [target |-> S(g[1]), method |-> S(g[2]), args |-> S(strip(g[3]))], <<>>))
    ELSE IF re_return(stripped).m
    THEN Recognized("leaf", Block(BLOCK_RETURN,
             [value |-> S(strip(re_return(stripped).g[1]))], <<>>))
    ELSE IF MatchPlugins(plugin_patterns, stripped).m
    THEN LET g == MatchPlugins(plugin_patterns, stripped).g IN
         Recognized("leaf", Block(BLOCK_PLUGIN,
             [plugin_id |-> S(g[1]), plugin_params |-> D(g[2])], <<>>))
    ELSE Recognized("leaf", Block(BLOCK_RAW_PERL, [code |-> S(line)], <<>>))

\* what the loop body does with a recognized block
Apply(st, r) ==
    IF r.how = "leaf" THEN add_block(st, r.b)
    ELSE IF r.how = "open" THEN push_last(add_block(st, r.b))
    ELSE IF /\ st.stack # <<>>
            /\ st.arena[st.stack[Len(st.stack)]].type \in {BLOCK_IF, BLOCK_ELSIF}
         THEN push_last(add_block(pop(st), r.b))
         ELSE push_last(add_block(st, r.b))

\* sub_name.startswith("EVENT_")
startswith_EVENT(sub_name) == sub_name[1] \in EventWords \cup {"EVENT_"}

\* the loop body once the line is known to be neither blank, a comment nor
\* a closing line
ParseStatement(st, plugin_patterns, line, stripped) ==
    IF re_multiline_decl_start(stripped).m
    THEN LET started == [flush_comment(st) EXCEPT
                            !.multiline_decl_kind = S(re_multiline_decl_start(stripped).g[1]),
                            !.multiline_var_name = S(re_multiline_decl_start(stripped).g[2]),
                            !.multiline_lines = <<line>>]
         IN IF endswith(stripped, <<")", ";">>) THEN flush_multiline_decl(started)
            ELSE started
    ELSE IF /\ ~re_sub_event(stripped).m
            /\ re_sub_any(stripped).m
            /\ ~startswith_EVENT(strip(re_sub_any(stripped).g[1]))
    THEN LET started == [flush_comment(st) EXCEPT
                            !.custom_sub_name = S(strip(re_sub_any(stripped).g[1])),
                            !.custom_sub_lines = <<line>>,
                            !.custom_sub_depth = _brace_delta(line)]
         IN IF started.custom_sub_depth <= 0 THEN flush_custom_sub(started)
            ELSE started
    ELSE Apply(st, Recognize(plugin_patterns, line, stripped))

\* one iteration of "for raw in lines"
ParseLine(st, plugin_patterns, line) ==
    LET stripped == strip(line) IN
    IF st.custom_sub_name.t # "none"
    THEN LET more == [st EXCEPT !.custom_sub_lines = Append(@, line),
                                !.custom_sub_depth = @ + _brace_delta(line)]
         IN IF more.custom_sub_depth <= 0 THEN flush_custom_sub(more) ELSE more
    ELSE IF st.multiline_decl_kind.t # "none"
    THEN LET more == [st EXCEPT !.multiline_lines = Append(@, line)] IN
         IF endswith(stripped, <<")", ";">>) THEN flush_multiline_decl(more) ELSE more
    ELSE IF stripped = <<>> THEN flush_comment(st)
    ELSE IF Head(stripped) = "#"
    THEN [st EXCEPT !.comment_accum = Append(@, strip(lstrip_hash(stripped)))]
    ELSE IF Head(stripped) = "}"
    THEN (IF flush_comment(st).stack # <<>> THEN pop(flush_comment(st))
          ELSE flush_comment(st))
    ELSE ParseStatement(flush_comment(st), plugin_patterns, line, stripped)

\* for raw in lines
RECURSIVE ParseLines(_, _, _, _)
ParseLines(st, plugin_patterns, lines, i) ==
    IF i > Len(lines) THEN st
    ELSE LET \* the locals after this line are a value before the next line is read
             rest == {ParseLines(next, plugin_patterns, lines, i + 1) :
                         next \in {ParseLine(st, plugin_patterns, lines[i])}}
         IN CHOOSE r \in rest : TRUE

\* parse_perl_to_blocks(perl_text, registry): the parser's locals at the
\* return (blocks is the list it returns), or what it raised
parse_perl_to_blocks(perl_text, reg) ==
    LET plugin_patterns == BuildPatterns(list_plugins(reg)) IN
    IF ~plugin_patterns.ok THEN plugin_patterns
    ELSE Ok(flush_comment(ParseLines(InitParser, plugin_patterns.v,
                                     splitlines(perl_text), 1)))

\* ------------------------------------------------------------------------
\* MainWindow: the script tree, the undo and redo stacks, the debounce timer
\* ------------------------------------------------------------------------
\* Block.to_dict()
RECURSIVE to_dict(_)
to_dict(b) ==
    [type |-> b.type, label |-> LabelOf(b), params |-> b.params,
     children |-> [k \in 1..Len(b.children) |-> to_dict(b.children[k])]]

\* Block.from_dict(data)
RECURSIVE from_dict(_)
from_dict(data) ==
    Block(data.type, data.params,
          [k \in 1..Len(data.children) |-> from_dict(data.children[k])])

\* the window after __init__: _load_script_state has cleared both stacks and
\* taken the first snapshot of the tree it loaded
MainWindow(blocks) ==
    [script_tree |-> blocks,
     undo_stack |-> <<[k \in 1..Len(blocks) |-> to_dict(blocks[k])]>>,
     redo_stack |-> <<>>,
     _restoring_undo |-> FALSE,
     _undo_debounce_timer |-> FALSE,   \* isActive()
     structure_changed |-> FALSE]      \* an emission queued by singleShot(0)

\* _serialize_state()
_serialize_state(w) ==
    [k \in 1..Len(w.script_tree) |-> to_dict(w.script_tree[k])]

\* a snapshot that is pushed whether or not the state has changed
_snapshot_state_Always(w) ==
    [w EXCEPT !.undo_stack = Append(@, _serialize_state(w)), !.redo_stack = <<>>]

\* _snapshot_state()
_snapshot_state(w) ==
    IF w.undo_stack # <<>> /\ w.undo_stack[Len(w.undo_stack)] = _serialize_state(w)
    THEN w
    ELSE [w EXCEPT !.undo_stack = Append(@, _serialize_state(w)), !.redo_stack = <<>>]

\* _queue_snapshot_state(delay_ms)
_queue_snapshot_state(w, delay_ms) ==
    IF w._restoring_undo THEN w
    ELSE IF delay_ms <= 0 THEN _snapshot_state(w)
    ELSE [w EXCEPT !._undo_debounce_timer = TRUE]

\* ScriptTree.load_from_blocks(blocks): the rows removed and inserted queue
\* an emission of structure_changed
load_from_blocks(w, blocks) ==
    [w EXCEPT !.script_tree = blocks,
              !.structure_changed = @ \/ w.script_tree # <<>> \/ blocks # <<>>]

\* _restore_state(state)
_restore_state(w, state) ==
    [load_from_blocks([w EXCEPT !._restoring_undo = TRUE],
                      [k \in 1..Len(state) |-> from_dict(state[k])])
        EXCEPT !._restoring_undo = FALSE]

\* on_undo()
on_undo(w) ==
    IF Len(w.undo_stack) <= 1 THEN w
    ELSE LET current == w.undo_stack[Len(w.undo_stack)]
             popped == [w EXCEPT !.undo_stack = SubSeq(@, 1, Len(@) - 1),
                                 !.redo_stack = Append(@, current)]
         IN _restore_state(popped, popped.undo_stack[Len(popped.undo_stack)])

\* on_redo()
on_redo(w) ==
    IF w.redo_stack = <<>> THEN w
    ELSE LET state == w.redo_stack[Len(w.redo_stack)] IN
         _restore_state([w EXCEPT !.redo_stack = SubSeq(@, 1, Len(@) - 1),
                                  !.undo_stack = Append(@, state)], state)

\* on_block_changed(block), after the form has written the value into the block
on_block_changed(w, k, value) ==
    _queue_snapshot_state([w EXCEPT !.script_tree[k].params = [code |-> S(value)]], 350)

\* the debounce timer fires: timeout is connected to _snapshot_state
timeout(w) == _snapshot_state([w EXCEPT !._undo_debounce_timer = FALSE])

\* on_structure_changed(), on the queued emission
on_structure_changed(w) ==
    _queue_snapshot_state([w EXCEPT !.structure_changed = FALSE], 0)

\* on_palette_add_block(block_type) with nothing selected
on_palette_add_block(w, block_type) ==
    _snapshot_state([w EXCEPT !.script_tree = Append(@, Block(block_type, <<>>, <<>>)),
                              !.structure_changed = TRUE])

\* on_delete_block() with item k selected
on_delete_block(w, k) ==
    _snapshot_state([w EXCEPT !.script_tree = SubSeq(@, 1, k - 1)
                                                \o SubSeq(@, k + 1, Len(@)),
                              !.structure_changed = TRUE])

\* ------------------------------------------------------------------------
\* Specification of the scanner: a string is typed lexeme by lexeme and
\* scanned for one symbol pair
\* ------------------------------------------------------------------------
SymbolPairs == {<<"(", ")">>, <<"{", "}">>}

ScanAlphabet == {open_ch, close_ch, "'", "\"", "\\", "a"}

InitBalance ==
    /\ pc = "scan"
    /\ text = <<>>
    /\ \E p \in SymbolPairs : open_ch = p[1] /\ close_ch = p[2]
    /\ scan = "none"
    /\ arena = <<>> /\ roots = <<>> /\ registry = {}
    /\ perl = NotRun /\ issues = NotRun
    /\ tmpl = <<>> /\ tmpl_params = <<>> /\ rendered = NotRun
    /\ ps = InitParser /\ patterns = NotRun /\ src_lines = <<>> /\ perl2 = NotRun
    /\ window = MainWindow(<<>>)

TypeChar ==
    /\ pc = "scan"
    /\ scan = "none"
    /\ Len(text) < MaxScanLen
    /\ \E ch \in ScanAlphabet : text' = Append(text, ch)
    /\ UNCHANGED <<pc, open_ch, close_ch, scan, treeVars, outVars, parseVars, renderVars, window>>

Scan ==
    /\ pc = "scan"
    /\ scan = "none"
    /\ scan' = PairVerdict(text, open_ch, close_ch)
    /\ UNCHANGED <<pc, text, open_ch, close_ch, treeVars, outVars, parseVars, renderVars, window>>

NextBalance == TypeChar \/ Scan

SpecBalance == InitBalance /\ [][NextBalance]_vars

\* ------------------------------------------------------------------------
\* C10
\* ------------------------------------------------------------------------
\* position i follows an odd run of backslashes
RECURSIVE BackslashRun(_, _)
BackslashRun(str, i) ==
    IF i >= 1 /\ str[i] = "\\" THEN 1 + BackslashRun(str, i - 1) ELSE 0

IsEscaped(str, i) == BackslashRun(str, i - 1) % 2 = 1

OtherQuote(q) == IF q = "'" THEN "\"" ELSE "'"

\* position i lies inside an open quote of type q
RECURSIVE InsideQuote(_, _, _)
InsideQuote(str, i, q) ==
    Cardinality({j \in 1..(i - 1) :
        /\ str[j] = q
        /\ ~IsEscaped(str, j)
        /\ ~InsideQuote(str, j, OtherQuote(q))}) % 2 = 1

IsCounted(str, i) ==
    /\ ~IsEscaped(str, i)
    /\ ~InsideQuote(str, i, "'")
    /\ ~InsideQuote(str, i, "\"")

CounterAt(str, k, o, c) ==
    Cardinality({i \in 1..k : str[i] = o /\ IsCounted(str, i)})
      - Cardinality({i \in 1..k : str[i] = c /\ IsCounted(str, i)})

ExpectedVerdict(str, o, c) ==
    IF \E k \in 1..Len(str) : CounterAt(str, k, o, c) < 0 THEN "too_many_closers"
    ELSE IF CounterAt(str, Len(str), o, c) > 0 THEN "missing_closer"
    ELSE "balanced"

\* C10: the balance scanner counts an open symbol as +1 and a close symbol as
\* -1 only outside both quote types and when not escaped by a backslash; its
\* verdict is "too many closers" exactly when that counter is negative at some
\* position, otherwise "missing closer" exactly when it ends positive,
\* otherwise balanced.
C10_BalanceScanner ==
    scan # "none" => scan = ExpectedVerdict(text, open_ch, close_ch)

\* a scanned string in which one close symbol is skipped (quoted or escaped)
\* and another one is counted and drives the counter negative
C10_Witness ==
    /\ scan = "too_many_closers"
    /\ \E i, j \in 1..Len(text) :
          /\ text[i] = close_ch /\ ~IsCounted(text, i)
          /\ text[j] = close_ch /\ IsCounted(text, j)

\* ------------------------------------------------------------------------
\* Specification of the editor passes: blocks are added to the tree, then
\* generate_perl and validate_blocks run on it (refresh_diagnostics)
\* ------------------------------------------------------------------------
\* the plugin PluginRegistry.load seeds the catalog with
SayToClient ==
    PluginDef(<<"say_to_client">>, 2,
              <<"plugin", "::", "SayToClient", "(", "$client", ",", " ",
                "\"", "{", "message", "}", "\"", ")", ";">>,
              <<[name |-> <<"message">>]>>)

SeedCatalog == {SayToClient}

\* the blocks the palette offers in this model: every kind the generator
\* knows, and the parameter values validation and generation treat specially
BlockPool ==
    { Block(BLOCK_EVENT, [event_name |-> S(<<"EVENT_SAY">>)], <<>>),
      Block(BLOCK_IF, [expr |-> S(<<"$x">>)], <<>>),
      Block(BLOCK_ELSIF, [expr |-> S(<<"$y">>)], <<>>),
      Block(BLOCK_ELSE, <<>>, <<>>),
      Block(BLOCK_WHILE, [expr |-> S(<<"(", "$x">>)], <<>>),
      Block(BLOCK_FOREACH, [var_name |-> S(<<"$n">>), list_expr |-> S(<<"@list">>)], <<>>),
      Block(BLOCK_FOR, [var_name |-> S(<<"$i">>), start |-> I(0), end |-> I(10),
                        cmp_op |-> S(<<"<", "=">>), inc_expr |-> S(<<"++">>)], <<>>),
      Block(BLOCK_NEXT, [expr |-> S(<<>>)], <<>>),
      Block(BLOCK_RETURN, [value |-> S(<<"1">>)], <<>>),
      Block(BLOCK_COMMENT, [text |-> S(<<"note">>)], <<>>),
      Block(BLOCK_SET_VAR, [var_name |-> S(<<"$x">>), value |-> S(<<"1">>)], <<>>),
      Block(BLOCK_ARRAY_ASSIGN, [lhs |-> S(<<"$h", "{", "k", "}">>), value |-> S(<<"1">>)], <<>>),
      Block(BLOCK_MY_VAR, [var_name |-> S(<<"$x">>), value |-> S(<<"1", ";">>)], <<>>),
      Block(BLOCK_OUR_VAR, [var_name |-> S(<<"$x">>)], <<>>),
      Block(BLOCK_SET_BUCKET, [key |-> S(<<"\"", "k", "\"">>), value |-> S(<<"\"", "v", "\"">>)], <<>>),
      Block(BLOCK_GET_BUCKET, [key |-> S(<<"\"", "k", "\"">>), var_name |-> S(<<"$x">>)], <<>>),
      Block(BLOCK_DELETE_BUCKET, [key |-> S(<<"\"", "k", "\"">>)], <<>>),
      Block(BLOCK_TIMER, [name |-> S(<<"respawn">>), seconds |-> I(5)], <<>>),
      Block(BLOCK_TIMER, [name |-> S(<<"respawn">>), seconds |-> S(<<"abc">>)], <<>>),
      Block(BLOCK_TIMER, [name |-> S(<<"respawn">>), seconds |-> None], <<>>),
      Block(BLOCK_TIMER, [name |-> I(5), seconds |-> I(5)], <<>>),
      Block(BLOCK_PLUGIN, [plugin_id |-> S(<<"say_to_client">>),
                           plugin_params |-> D([message |-> S(<<"Hi">>)])], <<>>),
      Block(BLOCK_PLUGIN, [plugin_id |-> S(<<"say_to_client">>),
                           plugin_params |-> D(<<>>)], <<>>),
      Block(BLOCK_PLUGIN, [plugin_id |-> S(<<"deleted_plugin">>),
                           plugin_params |-> D(<<>>)], <<>>),
      Block(BLOCK_PLUGIN, [plugin_id |-> S(<<>>)], <<>>),
      Block(BLOCK_RAW_PERL, [code |-> S(<<"foo", "(", ")", ";">>)], <<>>),
      Block(BLOCK_METHOD, [target |-> S(<<"$client">>), method |-> S(<<"Message">>),
                           args |-> S(<<"15", ",", " ", "\"", "Hi", "\"">>)], <<>>),
      Block(BLOCK_QUEST_CALL, [quest_fn |-> S(<<"say">>), args |-> S(<<"\"", "Hi", "\"">>)], <<>>),
      Block("bogus", <<>>, <<>>) }

InitGen ==
    /\ pc = "edit"
    /\ arena = <<>> /\ roots = <<>>
    /\ registry = SeedCatalog
    /\ perl = NotRun /\ issues = NotRun
    /\ tmpl = <<>> /\ tmpl_params = <<>> /\ rendered = NotRun
    /\ text = <<>> /\ open_ch = "(" /\ close_ch = ")" /\ scan = "none"
    /\ ps = InitParser /\ patterns = NotRun /\ src_lines = <<>> /\ perl2 = NotRun
    /\ window = MainWindow(<<>>)

\* insert_block_object: a new block becomes the last top-level block
\* (parent 0) or the last child of an existing block
AddBlock ==
    /\ pc = "edit"
    /\ perl = NotRun /\ issues = NotRun
    /\ Len(arena) < MaxBlocks
    /\ \E b \in BlockPool, parent \in 0..Len(arena) :
         LET id == Len(arena) + 1 IN
         IF parent = 0
         THEN /\ arena' = Append(arena, b)
              /\ roots' = Append(roots, id)
         ELSE /\ arena' = Append([arena EXCEPT ![parent].children = Append(@, id)], b)
              /\ roots' = roots
    /\ UNCHANGED <<pc, registry, perl, issues, scanVars, parseVars, renderVars, window>>

\* perl = generate_perl(blocks, self.registry)
Generate ==
    /\ pc = "edit"
    /\ perl' = generate_perl(arena, roots, registry)
    /\ UNCHANGED <<pc, arena, roots, registry, issues, scanVars, parseVars, renderVars, window>>

\* issues = validate_blocks(blocks, self.registry)
Validate ==
    /\ pc = "edit"
    /\ issues' = validate_blocks(arena, roots, registry)
    /\ UNCHANGED <<pc, arena, roots, registry, perl, scanVars, parseVars, renderVars, window>>

NextGen == AddBlock \/ Generate \/ Validate

SpecGen == InitGen /\ [][NextGen]_vars

\* ------------------------------------------------------------------------
\* Specification of the import: the recognizers are built from the catalog,
\* then the text is read line by line (parse_perl_to_blocks)
\* ------------------------------------------------------------------------
\* a template whose parameter name holds a backslash escape
EscapedNamePlugin ==
    PluginDef(<<"odd_escape">>, 1,
              <<"plugin", "::", "Odd", "(", "{", "a", "\\", "q", "}", ")", ";">>,
              <<[name |-> <<"a", "\\", "q">>]>>)

\* a template whose parameter name is no group name
ParenNamePlugin ==
    PluginDef(<<"odd_paren">>, 1,
              <<"plugin", "::", "Odd", "(", "{", "a", "(", "}", ")", ";">>,
              <<[name |-> <<"a", "(">>]>>)

\* a template whose parameter entry has no name
NamelessParamPlugin ==
    PluginDef(<<"odd_nameless">>, 1,
              <<"plugin", "::", "Odd", "(", ")", ";">>,
              <<[label |-> <<"a">>]>>)

\* a template that matches the lines of the seeded plugin too; its display
\* name sorts before the seeded one (key 1) or after it (key 3)
EchoPlugin(name_key) ==
    PluginDef(<<"echo">>, name_key,
              <<"plugin", "::", "SayToClient", "(", "$client", ",", " ",
                "\"", "{", "item", "}", "\"", ")", ";">>,
              <<[name |-> <<"item">>]>>)

\* a template written in the syntax of a direct API call
QuestSayPlugin ==
    PluginDef(<<"quest_say">>, 1,
              <<"quest", "::", "say", "(", "\"", "{", "message", "}", "\"", ")", ";">>,
              <<[name |-> <<"message">>]>>)

CatalogPool ==
    { SeedCatalog,
      {SayToClient, ParenNamePlugin},
      {SayToClient, EscapedNamePlugin},
      {SayToClient, NamelessParamPlugin} }

\* catalogs whose templates match the same lines, or lines in the syntax of a
\* fixed kind
AmbiguousCatalogs ==
    { SeedCatalog,
      {SayToClient, EchoPlugin(1)},
      {SayToClient, EchoPlugin(3), QuestSayPlugin} }

\* counted loops of the imported texts: the loop variable, the text of each
\* bound, the comparison, the increment and the blank written before it
ForShapes ==
    { [var |-> "$i", start |-> <<"0">>, cmp |-> <<"<", "=">>, end |-> <<"10">>,
       inc |-> <<"++">>, gap |-> <<>>],
      [var |-> "$i", start |-> <<"1_0">>, cmp |-> <<"<">>, end |-> <<"$n">>,
       inc |-> <<"--">>, gap |-> <<>>],
      [var |-> "$i", start |-> <<"$x">>, cmp |-> <<"<">>, end |-> <<"-", "1">>,
       inc |-> <<"+", "=", " ", "5">>, gap |-> <<" ">>] }

\* the opener line of a counted loop, as a script writes it
ForLine(f) ==
    <<"for", " ", "(", "my", " ", f.var, " ", "=", " ">> \o f.start
      \o <<";", " ", f.var, " ">> \o f.cmp \o <<" ">> \o f.end
      \o <<";", " ", f.var>> \o f.gap \o f.inc \o <<")", " ", "{">>

\* the lines of the imported texts
LinePool ==
    { <<"sub", " ", "EVENT_SAY", " ", "{">>,
      <<"if", " ", "(", "$x", ")", " ", "{">>,
      <<"elsif", " ", "(", "$y", ")", " ", "{">>,
      <<"else", " ", "{">>,
      <<"}">>,
      <<"}", " ", "else", " ", "{">>,
      <<>>,
      <<"#", " ", "note">>,
      <<"#">>,
      <<"quest", "::", "say", "(", "\"", "Hi", "\"", ")", ";">>,
      <<"foo">>,
      <<"sub", " ", "helper", " ", "{">>,
      <<"my", " ", "@a", " ", "=", " ", "(">>,
      <<")", ";">>,
      <<"return", ";">>,
      <<"plugin", "::", "SayToClient", "(", "$client", ",", " ", "\"", "Hi", "\"", ")", ";">>,
      <<" ", " ", " ", " ", "my", " ", "$x", " ", "=", " ", "1", ";">> }

InitParse ==
    /\ pc = "catalog"
    /\ registry \in CatalogPool
    /\ ps = InitParser
    /\ patterns = NotRun
    /\ src_lines = <<>>
    /\ perl2 = NotRun
    /\ arena = <<>> /\ roots = <<>>
    /\ perl = NotRun /\ issues = NotRun
    /\ tmpl = <<>> /\ tmpl_params = <<>> /\ rendered = NotRun
    /\ text = <<>> /\ open_ch = "(" /\ close_ch = ")" /\ scan = "none"
    /\ window = MainWindow(<<>>)

\* the recognizers are prebuilt; an exception leaves parse_perl_to_blocks
BuildRecognizers ==
    /\ pc = "catalog"
    /\ patterns' = BuildPatterns(list_plugins(registry))
    /\ pc' = IF patterns'.ok THEN "lines" ELSE "raised"
    /\ UNCHANGED <<ps, src_lines, perl2, scanVars, treeVars, outVars, renderVars, window>>

\* one iteration of the loop, on the next line of the text
ReadLine ==
    /\ pc = "lines"
    /\ Len(src_lines) < MaxLines
    /\ \E line \in LinePool :
         /\ src_lines' = Append(src_lines, line)
         /\ ps' = ParseLine(ps, patterns.v, line)
    /\ UNCHANGED <<pc, patterns, perl2, scanVars, treeVars, outVars, renderVars, window>>

\* the text has no more lines: the trailing comments are flushed, blocks returned
EndOfText ==
    /\ pc = "lines"
    /\ ps' = flush_comment(ps)
    /\ pc' = "returned"
    /\ UNCHANGED <<patterns, src_lines, perl2, scanVars, treeVars, outVars, renderVars, window>>

NextParse == BuildRecognizers \/ ReadLine \/ EndOfText

SpecParse == InitParse /\ [][NextParse]_vars

\* ------------------------------------------------------------------------
\* Specification of the recognizers: texts of single statements and loop
\* openers are imported with catalogs of ambiguous templates
\* ------------------------------------------------------------------------
StatementPool ==
    { ForLine(f) : f \in ForShapes } \cup
    { <<"sub", " ", "EVENT_SAY", " ", "{">>,
      <<"if", " ", "(", "$x", ")", " ", "{">>,
      <<"}">>,
      <<"quest", "::", "say", "(", "\"", "Hi", "\"", ")", ";">>,
      <<"return", ";">>,
      <<"plugin", "::", "SayToClient", "(", "$client", ",", " ", "\"", "Hi", "\"", ")", ";">>,
      <<"foo">> }

InitStatements ==
    /\ pc = "catalog"
    /\ registry \in AmbiguousCatalogs
    /\ ps = InitParser
    /\ patterns = NotRun
    /\ src_lines = <<>>
    /\ perl2 = NotRun
    /\ arena = <<>> /\ roots = <<>>
    /\ perl = NotRun /\ issues = NotRun
    /\ tmpl = <<>> /\ tmpl_params = <<>> /\ rendered = NotRun
    /\ text = <<>> /\ open_ch = "(" /\ close_ch = ")" /\ scan = "none"
    /\ window = MainWindow(<<>>)

\* one iteration of the loop, on the next statement of the text
ReadStatement ==
    /\ pc = "lines"
    /\ Len(src_lines) < MaxLines
    /\ \E line \in StatementPool :
         /\ src_lines' = Append(src_lines, line)
         /\ ps' = ParseLine(ps, patterns.v, line)
    /\ UNCHANGED <<pc, patterns, perl2, scanVars, treeVars, outVars, renderVars, window>>

NextStatements == BuildRecognizers \/ ReadStatement \/ EndOfText

SpecStatements == InitStatements /\ [][NextStatements]_vars

\* ------------------------------------------------------------------------
\* Specification of the round trip: a tree is built, exported
\* (on_export_perl), imported again (on_open_perl) and regenerated
\* ------------------------------------------------------------------------
Export ==
    /\ pc = "edit"
    /\ perl = NotRun /\ issues = NotRun
    /\ perl' = generate_perl(arena, roots, registry)
    /\ pc' = IF perl'.ok THEN "exported" ELSE "export failed"
    /\ UNCHANGED <<arena, roots, registry, issues, scanVars, parseVars, renderVars, window>>

\* the tree the import leaves in the editor: the parsed one, or the one
\* it had when the parse raised
Imported(r, kept) ==
    IF r.ok THEN r.v ELSE kept

Import ==
    /\ pc = "exported"
    /\ patterns' = BuildPatterns(list_plugins(registry))
    /\ src_lines' = splitlines(perl.v)
    /\ ps' = Imported(parse_perl_to_blocks(perl.v, registry), ps)
    /\ pc' = IF patterns'.ok THEN "imported" ELSE "raised"
    /\ UNCHANGED <<perl2, scanVars, treeVars, outVars, renderVars, window>>

Regenerate ==
    /\ pc = "imported"
    /\ perl2' = generate_perl(ps.arena, ps.blocks, registry)
    /\ pc' = "regenerated"
    /\ UNCHANGED <<ps, patterns, src_lines, scanVars, treeVars, outVars, renderVars, window>>

NextRoundTrip == AddBlock \/ Export \/ Import \/ Regenerate

SpecRoundTrip == InitGen /\ [][NextRoundTrip]_vars

\* ------------------------------------------------------------------------
\* Specification of validation: trees of up to MaxChecked blocks over the
\* blocks the checks of validate_blocks tell apart
\* ------------------------------------------------------------------------
MaxChecked == 3
MaxNested == 3
MaxItems == 2
MaxHistory == 3

CheckedPool ==
    { Block(BLOCK_EVENT, [event_name |-> S(<<"EVENT_SAY">>)], <<>>),
      Block(BLOCK_EVENT, [event_name |-> S(<<"EVENT_TIMER">>)], <<>>),
      Block(BLOCK_EVENT, [event_name |-> S(<<" ", "EVENT_SAY">>)], <<>>),
      Block(BLOCK_IF, [expr |-> S(<<"$x">>)], <<>>),
      Block(BLOCK_TIMER, [name |-> S(<<"respawn">>), seconds |-> I(5)], <<>>),
      Block(BLOCK_TIMER, [name |-> S(<<"respawn">>), seconds |-> I(-1)], <<>>),
      Block(BLOCK_TIMER, [name |-> S(<<"respawn">>), seconds |-> S(<<"abc">>)], <<>>),
      Block(BLOCK_TIMER, [name |-> S(<<"respawn">>), seconds |-> Fl(-5)], <<>>),
      Block(BLOCK_TIMER, [name |-> S(<<>>)], <<>>),
      Block(BLOCK_TIMER, [name |-> I(5), seconds |-> I(5)], <<>>),
      Block(BLOCK_PLUGIN, [plugin_id |-> S(<<"say_to_client">>),
                           plugin_params |-> D([message |-> S(<<"Hi">>)])], <<>>),
      Block(BLOCK_PLUGIN, [plugin_id |-> S(<<"say_to_client">>),
                           plugin_params |-> D(<<>>)], <<>>),
      Block(BLOCK_PLUGIN, [plugin_id |-> S(<<"deleted_plugin">>),
                           plugin_params |-> D(<<>>)], <<>>),
      Block(BLOCK_PLUGIN, [plugin_id |-> S(<<>>)], <<>>) }

\* as AddBlock, over the blocks of CheckedPool
AddChecked ==
    /\ pc = "edit"
    /\ perl = NotRun /\ issues = NotRun
    /\ Len(arena) < MaxChecked
    /\ \E b \in CheckedPool, parent \in 0..Len(arena) :
         LET id == Len(arena) + 1 IN
         IF parent = 0
         THEN /\ arena' = Append(arena, b)
              /\ roots' = Append(roots, id)
         ELSE /\ arena' = Append([arena EXCEPT ![parent].children = Append(@, id)], b)
              /\ roots' = roots
    /\ UNCHANGED <<pc, registry, perl, issues, scanVars, parseVars, renderVars, window>>

NextValidate == AddChecked \/ Validate

SpecValidate == InitGen /\ [][NextValidate]_vars

\* ------------------------------------------------------------------------
\* Specification of the template renderer: a template is typed lexeme by
\* lexeme and rendered with one parameter map
\* ------------------------------------------------------------------------
MaxTemplateLen == 7

\* lexemes of a template: the braces, two identifiers, a word that is not an
\* identifier
TemplateAlphabet == {"{", "}", "message", "item", "10"}

\* parameter maps: str, int and null values, a value spelling a placeholder
ParamMaps ==
    { <<>>,
      [message |-> S(<<"Hi">>)],
      [message |-> None],
      [message |-> I(5), item |-> S(<<"Hi">>)],
      [item |-> S(<<"{", "message", "}">>)],
      [message |-> S(<<"Hi">>), item |-> None] }

InitRender ==
    /\ pc = "render"
    /\ tmpl = <<>>
    /\ tmpl_params \in ParamMaps
    /\ rendered = NotRun
    /\ text = <<>> /\ open_ch = "(" /\ close_ch = ")" /\ scan = "none"
    /\ arena = <<>> /\ roots = <<>> /\ registry = {}
    /\ perl = NotRun /\ issues = NotRun
    /\ ps = InitParser /\ patterns = NotRun /\ src_lines = <<>> /\ perl2 = NotRun
    /\ window = MainWindow(<<>>)

TypeTemplate ==
    /\ pc = "render"
    /\ rendered = NotRun
    /\ Len(tmpl) < MaxTemplateLen
    /\ \E t \in TemplateAlphabet : tmpl' = Append(tmpl, t)
    /\ UNCHANGED <<pc, tmpl_params, rendered, scanVars, treeVars, outVars, parseVars, window>>

Render ==
    /\ pc = "render"
    /\ rendered = NotRun
    /\ rendered' = render_plugin_template(tmpl, D(tmpl_params))
    /\ UNCHANGED <<pc, tmpl, tmpl_params, scanVars, treeVars, outVars, parseVars, window>>

NextRender == TypeTemplate \/ Render

SpecRender == InitRender /\ [][NextRender]_vars

\* ------------------------------------------------------------------------
\* C5 .. C9
\* ------------------------------------------------------------------------
\* a block is rendered iff every ancestor is a container kind
RECURSIVE Rendered(_, _, _)
Rendered(ar, ids, id) ==
    \E k \in 1..Len(ids) :
        \/ ids[k] = id
        \/ /\ ar[ids[k]].type \in ContainerKinds
           /\ Rendered(ar, ar[ids[k]].children, id)

MissingParamPlugin(id) ==
    /\ arena[id].type = BLOCK_PLUGIN
    /\ PyTruthy(Get(arena[id].params, "plugin_id", None))
    /\ RegistryGet(registry, Get(arena[id].params, "plugin_id", None)).ok
    /\ LET r == render_plugin_template(
                    RegistryGet(registry, Get(arena[id].params, "plugin_id", None)).v.perl_template,
                    Get(arena[id].params, "plugin_params", D(<<>>)))
       IN ~r.ok /\ r.exc[1] = "ValueError"

\* C6 (as claimed): generation is total: whenever no plugin invocation of the
\* tree fails with a missing parameter, generate returns text and does not
\* raise, whatever the other parameter values are.
C6_GenerationTotal ==
    (perl # NotRun /\ \A id \in 1..Len(arena) : ~MissingParamPlugin(id)) => perl.ok

\* the tree with block id turned into a comment block holding txt
AsComment(ar, id, txt) ==
    [ar EXCEPT ![id].type = BLOCK_COMMENT, ![id].params = [text |-> S(txt)]]

\* C7 (as claimed): a plugin block with a missing template parameter degrades
\* alone: generate still returns text whenever the tree renders with that
\* block turned into a comment, and validate reports an error for the block.
C7_MissingParamDegrades ==
    \A id \in 1..Len(arena) :
        MissingParamPlugin(id) =>
          /\ (perl # NotRun /\ generate_perl(AsComment(arena, id, <<"x">>), roots, registry).ok)
                => perl.ok
          /\ issues # NotRun =>
                /\ issues.ok
                /\ \E k \in 1..Len(issues.v) :
                     issues.v[k].level = "error" /\ issues.v[k].block_ref = id

\* a plugin block whose template id the catalog does not hold
UnknownPlugin(id) ==
    /\ arena[id].type = BLOCK_PLUGIN
    /\ PyTruthy(Get(arena[id].params, "plugin_id", None))
    /\ ~RegistryGet(registry, Get(arena[id].params, "plugin_id", None)).ok

UnknownPluginText(id) ==
    <<"[Unknown plugin:", " ">> \o PyStr(Get(arena[id].params, "plugin_id", None)) \o <<"]">>

\* C8: a plugin block whose template id is not in the catalog is rendered as
\* exactly one comment line at its indentation, and the rest of the tree is
\* rendered as if that block were this comment: generation completes exactly
\* when it does for the rest.
C8_UnknownPluginComment ==
    \A id \in 1..Len(arena) :
        UnknownPlugin(id) =>
          /\ \A d \in 0..2 :
               render_block(arena, registry, id, d)
                 = Ok(<<Spaces(4 * d) \o <<"#", " ">> \o UnknownPluginText(id)>>)
          /\ perl # NotRun =>
               perl = generate_perl(AsComment(arena, id, UnknownPluginText(id)), roots, registry)

\* text was generated from a tree that renders an unknown plugin block
\* next to another block
C8_Witness ==
    /\ perl.ok
    /\ \E id \in 1..Len(arena) :
         UnknownPlugin(id) /\ Rendered(arena, roots, id) /\ Len(arena) >= 2

\* C9 (as claimed): validation never raises: it returns an issue list for every tree, and
\* when generation fails the list holds an error-severity issue saying so.
C9_ValidateNeverRaises ==
    issues # NotRun =>
      /\ issues.ok
      /\ ~generate_perl(arena, roots, registry).ok =>
           \E k \in 1..Len(issues.v) :
               /\ issues.v[k].level = "error"
               /\ issues.v[k].message = "Failed to generate Perl for linting"

\* ------------------------------------------------------------------------
\* C1 .. C4
\* ------------------------------------------------------------------------
\* blocks of kinds the generator supports, with canonical parameter text
CanonicalPool ==
    { Block(BLOCK_EVENT, [event_name |-> S(<<"EVENT_SAY">>)], <<>>),
      Block(BLOCK_IF, [expr |-> S(<<"$x">>)], <<>>),
      Block(BLOCK_ELSIF, [expr |-> S(<<"$y">>)], <<>>),
      Block(BLOCK_ELSE, <<>>, <<>>),
      Block(BLOCK_FOREACH, [var_name |-> S(<<"$n">>), list_expr |-> S(<<"@list">>)], <<>>),
      Block(BLOCK_FOR, [var_name |-> S(<<"$i">>), start |-> I(0), end |-> I(10),
                        cmp_op |-> S(<<"<", "=">>), inc_expr |-> S(<<"++">>)], <<>>),
      Block(BLOCK_NEXT, [expr |-> S(<<>>)], <<>>),
      Block(BLOCK_RETURN, [value |-> S(<<"1">>)], <<>>),
      Block(BLOCK_COMMENT, [text |-> S(<<"note">>)], <<>>),
      Block(BLOCK_SET_VAR, [var_name |-> S(<<"$x">>), value |-> S(<<"1">>)], <<>>),
      Block(BLOCK_ARRAY_ASSIGN, [lhs |-> S(<<"$h", "{", "k", "}">>), value |-> S(<<"1">>)], <<>>),
      Block(BLOCK_OUR_VAR, [var_name |-> S(<<"$x">>)], <<>>),
      Block(BLOCK_TIMER, [name |-> S(<<"respawn">>), seconds |-> I(5)], <<>>),
      Block(BLOCK_RAW_PERL, [code |-> S(<<"foo", "(", ")", ";">>)], <<>>),
      Block(BLOCK_METHOD, [target |-> S(<<"$client">>), method |-> S(<<"Message">>),
                           args |-> S(<<"15", ",", " ", "\"", "Hi", "\"">>)], <<>>),
      Block(BLOCK_QUEST_CALL, [quest_fn |-> S(<<"say">>), args |-> S(<<"\"", "Hi", "\"">>)], <<>>) }

CanonicalTree ==
    \A id \in 1..Len(arena) :
        Block(arena[id].type, arena[id].params, <<>>) \in CanonicalPool \cap BlockPool

\* C1 (as claimed): round trip: for a tree of supported kinds with canonical
\* parameter text, generating, parsing the text and generating again gives
\* the first text again, lexeme for lexeme.
C1_RoundTrip ==
    (pc = "regenerated" /\ CanonicalTree) => perl2 = perl

\* the block whose children hold block id; 0 for a top-level block
ParentOf(st, id) ==
    IF \E p \in 1..Len(st.arena) :
          \E k \in 1..Len(st.arena[p].children) : st.arena[p].children[k] = id
    THEN CHOOSE p \in 1..Len(st.arena) :
          \E k \in 1..Len(st.arena[p].children) : st.arena[p].children[k] = id
    ELSE 0

Accumulating(st) ==
    st.custom_sub_name.t # "none" \/ st.multiline_decl_kind.t # "none"

\* the line reaches the recognizers and is an else-if or else opener
ChainOpener(st, line) ==
    /\ ~Accumulating(st)
    /\ strip(line) # <<>>
    /\ Head(strip(line)) \notin {"#", "}"}
    /\ ~re_multiline_decl_start(strip(line)).m
    /\ ~re_sub_any(strip(line)).m
    /\ Recognize(<<>>, line, strip(line)).how = "chain"

IsConditional(st, id) == st.arena[id].type \in {BLOCK_IF, BLOCK_ELSIF}

Top(stack) == stack[Len(stack)]

\* the conditional an opener read in state st continues, 0 if none: the
\* conditional the line before closed, or else the conditional still open
Continued(st, plugin_patterns, lines) ==
    LET n == Len(lines)
        before == ParseLines(InitParser, plugin_patterns, SubSeq(lines, 1, n - 1), 1)
    IN IF /\ n >= 1 /\ strip(lines[n]) = <<"}">>
          /\ ~Accumulating(before)
       THEN (IF before.stack # <<>> /\ IsConditional(before, Top(before.stack))
             THEN Top(before.stack) ELSE 0)
       ELSE IF st.stack # <<>> /\ IsConditional(st, Top(st.stack))
            THEN Top(st.stack) ELSE 0

\* C2 (as claimed): else-if/else are siblings: the block made for an else-if
\* or else opener that continues a conditional (the last block the line
\* adds), whether or not that conditional's closing line came first, gets
\* the parent of the conditional.
C2_ElseSiblings ==
    [][(pc = "lines" /\ Len(src_lines') = Len(src_lines) + 1) =>
         LET line == src_lines'[Len(src_lines')]
             cond == Continued(ps, patterns.v, src_lines)
         IN (ChainOpener(ps, line) /\ cond # 0) =>
               ParentOf(ps', Len(ps'.arena)) = ParentOf(ps, cond)]_vars

\* the lines of a str parameter
ParamLines(b, key) ==
    IF key \in DOMAIN b.params /\ b.params[key].t = "str"
    THEN splitlines(b.params[key].s) ELSE <<>>

\* the line is held by a block of the parse result: verbatim in a raw block,
\* as text of a comment block, or as the structured block the recognizers
\* make of it
Represented(st, plugin_patterns, line) ==
    \E id \in 1..Len(st.arena) :
        LET b == st.arena[id] IN
        \/ /\ b.type = BLOCK_RAW_PERL
           /\ \E k \in 1..Len(ParamLines(b, "code")) :
                 strip(ParamLines(b, "code")[k]) = strip(line)
        \/ /\ b.type = BLOCK_COMMENT
           /\ Head(strip(line)) = "#"
           /\ \E k \in 1..Len(ParamLines(b, "text")) :
                 ParamLines(b, "text")[k] = strip(lstrip_hash(strip(line)))
        \/ /\ b.type \notin {BLOCK_RAW_PERL, BLOCK_COMMENT}
           /\ Head(strip(line)) # "#"
           /\ Block(b.type, b.params, <<>>)
                = Recognize(plugin_patterns, line, strip(line)).b

\* C3 (as claimed): total line coverage: when the parser returns, every line
\* it read that is neither blank nor a lone closing line is held by a block
\* of the result.
C3_TotalLineCoverage ==
    pc = "returned" =>
       \A k \in 1..Len(src_lines) :
           (strip(src_lines[k]) # <<>> /\ strip(src_lines[k]) # <<"}">>) =>
               Represented(ps, patterns.v, src_lines[k])

\* C4 (as claimed): the parser never errors: whatever the catalog holds,
\* building the recognizers does not raise, and a template that cannot be
\* compiled is left out of the recognizers only.
C4_ParserNeverErrors ==
    /\ pc # "raised"
    /\ patterns # NotRun =>
          /\ patterns.ok
          /\ \A k \in 1..Len(patterns.v) : patterns.v[k].pdef \in registry

\* ------------------------------------------------------------------------
\* C11 .. C12
\* ------------------------------------------------------------------------
\* a {identifier} occurrence starts at position i of the template
PlaceholderAt(t, i) ==
    /\ i >= 1 /\ i + 2 <= Len(t)
    /\ t[i] = "{" /\ t[i + 1] \in Identifiers /\ t[i + 2] = "}"

\* the names the placeholders of the template carry
PlaceholderNames(t) == {t[i + 1] : i \in {j \in 1..Len(t) : PlaceholderAt(t, j)}}

\* what position i of the template contributes to the rendered text
Piece(t, p, i) ==
    IF PlaceholderAt(t, i)
    THEN (IF p[t[i + 1]] = None THEN <<>> ELSE PyStr(p[t[i + 1]]))
    ELSE IF PlaceholderAt(t, i - 1) \/ PlaceholderAt(t, i - 2) THEN <<>>
    ELSE <<t[i]>>

RECURSIVE Pieces(_, _, _)
Pieces(t, p, i) == IF i = 0 THEN <<>> ELSE Pieces(t, p, i - 1) \o Piece(t, p, i)

\* C11: when the parameter map has an entry for every placeholder name of
\* the template, render returns the template with every {identifier}
\* occurrence replaced by the stringified value (nothing for null) and every
\* other lexeme, braces included, as it was.
C11_RenderSubstitutes ==
    (rendered # NotRun /\ PlaceholderNames(tmpl) \subseteq DOMAIN tmpl_params)
        => rendered = Ok(Pieces(tmpl, tmpl_params, Len(tmpl)))

\* a template with the same placeholder twice, next to a brace that encloses
\* no identifier, was rendered with a null value
C11_Witness ==
    /\ rendered # NotRun /\ rendered.ok
    /\ \E i, j \in 1..Len(tmpl) :
         i < j /\ PlaceholderAt(tmpl, i) /\ PlaceholderAt(tmpl, j)
         /\ tmpl[i + 1] = tmpl[j + 1] /\ tmpl_params[tmpl[i + 1]] = None
    /\ \E i \in 1..Len(tmpl) : tmpl[i] = "{" /\ ~PlaceholderAt(tmpl, i)

\* C12: render fails exactly when some placeholder of the template has no
\* entry in the parameter map: it then raises the missing-parameter error
\* naming such a placeholder and returns no text.
C12_RenderMissingParam ==
    rendered # NotRun =>
       LET missing == PlaceholderNames(tmpl) \ DOMAIN tmpl_params IN
       /\ missing # {} =>
            /\ ~rendered.ok
            /\ \E k \in missing :
                 rendered.exc = <<"ValueError", "Missing template param", k>>
       /\ missing = {} => rendered.ok

\* render raised for a template with one placeholder that has an entry and
\* one that has none
C12_Witness ==
    /\ rendered # NotRun /\ ~rendered.ok
    /\ PlaceholderNames(tmpl) \cap DOMAIN tmpl_params # {}
    /\ PlaceholderNames(tmpl) \ DOMAIN tmpl_params # {}

\* ------------------------------------------------------------------------
\* C13 .. C16
\* ------------------------------------------------------------------------
\* the text is an integer literal, with or without a sign
IntegerText(w) ==
    \/ Len(w) = 1 /\ w[1] \in Numerals
    \/ Len(w) = 2 /\ w[1] \in {"-", "+"} /\ w[2] \in Numerals

\* the seconds value of a timer block is missing, is not an integer, or is
\* negative
BadSeconds(b) ==
    \/ "seconds" \notin DOMAIN b.params
    \/ LET v == b.params["seconds"] IN
       CASE v.t = "none" -> TRUE
         [] v.t = "int" -> v.n < 0
         [] v.t = "float" -> v.tenths % 10 # 0 \/ v.tenths < 0
         [] v.t = "str" -> ~IntegerText(strip(v.s)) \/ Head(strip(v.s)) = "-"
         [] OTHER -> TRUE

\* an error-severity issue about seconds that references block id
SecondsIssue(iss, id) ==
    /\ iss.level = "error" /\ iss.block_ref = id
    /\ iss.message \in {"Timer seconds must be >= 0.", "Timer seconds is not an integer."}

\* C13 (as claimed): in the list validate returns, a timer block at any
\* depth has an error-severity issue about seconds referencing it exactly
\* when its seconds value is missing, is not an integer, or is negative.
C13_TimerSeconds ==
    (issues # NotRun /\ issues.ok) =>
       \A id \in 1..Len(arena) :
           arena[id].type = BLOCK_TIMER =>
              ((\E k \in 1..Len(issues.v) : SecondsIssue(issues.v[k], id))
                 <=> BadSeconds(arena[id]))

\* the whole-script warnings about timers set without a timer handler
TimerWarnings(list) ==
    {k \in 1..Len(list) :
        /\ list[k].level = "warn"
        /\ list[k].message = "You set timers but have no EVENT_TIMER handler."}

\* the tree holds a timer-set block, whatever its name and depth
SetsTimer == \E id \in 1..Len(arena) : arena[id].type = BLOCK_TIMER

\* the tree has a top-level handler of the timer-fired event
HandlesTimer ==
    \E k \in 1..Len(roots) :
        /\ arena[roots[k]].type = BLOCK_EVENT
        /\ "event_name" \in DOMAIN arena[roots[k]].params
        /\ arena[roots[k]].params["event_name"] = S(<<"EVENT_TIMER">>)

\* C14 (as claimed): the list validate returns holds the 'timers set but no
\* timer handler' warning exactly when the tree holds a timer-set block and
\* no timer-fired handler, and never more than once.
C14_TimerWithoutHandler ==
    (issues # NotRun /\ issues.ok) =>
       /\ Cardinality(TimerWarnings(issues.v)) <= 1
       /\ (TimerWarnings(issues.v) # {}) <=> (SetsTimer /\ ~HandlesTimer)

\* the top-level event-handler blocks that carry the event name
Carriers(name) ==
    {k \in 1..Len(roots) :
        /\ arena[roots[k]].type = BLOCK_EVENT
        /\ "event_name" \in DOMAIN arena[roots[k]].params
        /\ arena[roots[k]].params["event_name"].t = "str"
        /\ strip(arena[roots[k]].params["event_name"].s) = name}

\* the duplicate warnings of the list that name the event
DuplicateWarnings(list, name) ==
    {k \in 1..Len(list) :
        /\ list[k].level = "warn"
        /\ list[k].message = "Duplicate top-level handler"
        /\ list[k].where = name}

\* C15 (as claimed): for every event name carried by two or more top-level
\* handlers validate emits exactly one warning naming that event, and for a
\* name carried by exactly one it emits no duplicate warning.
C15_DuplicateHandlers ==
    issues # NotRun =>
       \A name \in {<<"EVENT_SAY">>, <<"EVENT_TIMER">>} :
           /\ Cardinality(Carriers(name)) >= 2 =>
                 /\ issues.ok
                 /\ Cardinality(DuplicateWarnings(issues.v, name)) = 1
           /\ Cardinality(Carriers(name)) = 1 =>
                 (issues.ok => DuplicateWarnings(issues.v, name) = {})

\* the plugin block has no selected template, names a template the catalog
\* does not hold, or names one whose rendering misses a parameter
FaultyPlugin(id) ==
    LET pid == Get(arena[id].params, "plugin_id", None) IN
    \/ ~PyTruthy(pid)
    \/ \A p \in registry : S(p.plugin_id) # pid
    \/ \E p \in registry :
          /\ S(p.plugin_id) = pid
          /\ LET given == Get(arena[id].params, "plugin_params", D(<<>>)) IN
             PlaceholderNames(p.perl_template)
                \ (IF given.t = "dict" THEN DOMAIN given.d ELSE {}) # {}

\* the plugin errors of the list that reference block id
PluginErrors(list, id) ==
    {k \in 1..Len(list) :
        /\ list[k].level = "error"
        /\ list[k].block_ref = id
        /\ list[k].message \in {"Plugin block has no plugin selected.",
                                "Unknown plugin_id (not found in plugins.json).",
                                "Plugin template render failed"}}

\* C16 (as claimed): for every plugin block at any depth validate emits
\* exactly one error referencing it when it has no selected template, an
\* unknown template id or a template that misses a parameter, and no plugin
\* error when its template exists and renders.
C16_PluginIntegrity ==
    issues # NotRun =>
       \A id \in 1..Len(arena) :
           arena[id].type = BLOCK_PLUGIN =>
              /\ FaultyPlugin(id) =>
                    /\ issues.ok
                    /\ Cardinality(PluginErrors(issues.v, id)) = 1
              /\ ~FaultyPlugin(id) =>
                    (issues.ok => PluginErrors(issues.v, id) = {})

\* ------------------------------------------------------------------------
\* C17: counted loops

\* the value the claim gives a bound: an integer for an integer literal, the
\* text otherwise
BoundValue(w) ==
    IF IntegerText(w)
    THEN I((IF w[1] = "-" THEN -1 ELSE 1) * NumeralValue(w[Len(w)]))
    ELSE S(w)

\* the decimal text of an integer literal, the text itself otherwise
BoundCanon(w) == PyStr(BoundValue(w))

\* the opener line the generator writes for the loop f with the given bound
\* texts: the increment follows the variable directly
ForOpener(f, start_s, end_s) ==
    <<"for", " ", "(", "my", " ", f.var, " ", "=", " ">> \o start_s
      \o <<";", " ", f.var, " ">> \o f.cmp \o <<" ">> \o end_s
      \o <<";", " ", f.var>> \o f.inc \o <<")", " ", "{">>

\* a step of the parser that hands the opener of the loop f to the recognizers
ReadsFor(f) ==
    /\ pc = "lines"
    /\ Len(src_lines') = Len(src_lines) + 1
    /\ src_lines'[Len(src_lines')] = ForLine(f)
    /\ ~Accumulating(ps)

\* the block the step made captures the comparison, the increment and the
\* two bounds of the loop f
CapturesFor(f, b) ==
    /\ b.type = BLOCK_FOR
    /\ b.params.var_name = S(<<f.var>>)
    /\ b.params.cmp_op = S(f.cmp)
    /\ b.params.inc_expr = S(f.inc)
    /\ b.params.start = BoundValue(f.start)
    /\ b.params.end = BoundValue(f.end)

\* C17 as stated: a counted-loop line becomes a for block with the
\* comparison operator (< or <=) and the increment expression captured, the
\* bounds stored as integers when they are integer literals and as text
\* otherwise, and regenerating the block writes the same bound text again
C17_ForBounds ==
    [][\A f \in ForShapes :
         ReadsFor(f) =>
           /\ CapturesFor(f, ps'.arena[Len(ps'.arena)])
           /\ OpenerLine(ps'.arena[Len(ps'.arena)]) = ForOpener(f, f.start, f.end)]_vars

\* C17 as the code has it: the same capture, and regenerating writes the
\* decimal text of the integer for a literal bound (1_0 comes back as 10) and
\* the same text for an expression bound
C17_ForBoundsNormalised ==
    [][\A f \in ForShapes :
         ReadsFor(f) =>
           /\ CapturesFor(f, ps'.arena[Len(ps'.arena)])
           /\ OpenerLine(ps'.arena[Len(ps'.arena)])
                = ForOpener(f, BoundCanon(f.start), BoundCanon(f.end))]_vars

\* a loop whose start is written 1_0 and whose end is an expression has been
\* read and its block stands in the tree with start 10
C17_Witness ==
    /\ pc = "lines"
    /\ \E k \in 1..Len(src_lines), id \in 1..Len(ps.arena) :
         /\ \E f \in ForShapes : f.start = <<"1_0">> /\ src_lines[k] = ForLine(f)
         /\ ps.arena[id].type = BLOCK_FOR
         /\ ps.arena[id].params.start = I(10)
         /\ ps.arena[id].params.end = S(<<"$n">>)

\* ------------------------------------------------------------------------
\* C18: priority of the recognizers

\* the template t with every placeholder replaced by the text w
RECURSIVE Instance(_, _)
Instance(t, w) ==
    IF t = <<>> THEN <<>>
    ELSE IF Len(t) >= 3 /\ t[1] = "{" /\ t[2] \in Identifiers /\ t[3] = "}"
    THEN w \o Instance(SubSeq(t, 4, Len(t)), w)
    ELSE <<Head(t)>> \o Instance(Tail(t), w)

\* the plugins of the catalog whose template the line is an instance of
PluginsMatching(line) ==
    { p \in registry : \E w \in {<<"Hi">>, <<"1">>} : line = Instance(p.perl_template, w) }

\* the lines of the pool that a fixed recognizer of a kind matches, with the
\* kind
LiteralLines ==
    { <<<<"quest", "::", "say", "(", "\"", "Hi", "\"", ")", ";">>, BLOCK_QUEST_CALL>>,
      <<<<"return", ";">>, BLOCK_RETURN>>,
      <<<<"if", " ", "(", "$x", ")", " ", "{">>, BLOCK_IF>>,
      <<<<"sub", " ", "EVENT_SAY", " ", "{">>, BLOCK_EVENT>> }

\* a step of the parser that hands the line to the recognizers
ReadsStatement(line) ==
    /\ pc = "lines"
    /\ Len(src_lines') = Len(src_lines) + 1
    /\ src_lines'[Len(src_lines')] = line
    /\ ~Accumulating(ps)

\* C18: a line that a fixed recognizer and a plugin recognizer both match
\* becomes the block of the fixed recognizer's kind; a line that no fixed
\* recognizer matches and several plugin recognizers match becomes a plugin
\* block of the template that comes first in the catalog order (by display
\* name)
C18_RecognizerPriority ==
    [][\A line \in StatementPool :
         (ReadsStatement(line) /\ PluginsMatching(line) # {}) =>
           LET b == ps'.arena[Len(ps'.arena)] IN
           /\ \A l \in LiteralLines : l[1] = line => b.type = l[2]
           /\ (\A l \in LiteralLines : l[1] # line) =>
                /\ b.type = BLOCK_PLUGIN
                /\ \E p \in PluginsMatching(line) :
                     /\ \A q \in PluginsMatching(line) : p.name <= q.name
                     /\ b.params.plugin_id = S(p.plugin_id)]_vars

\* with a catalog holding three templates, a line in direct-API syntax that
\* a template matches too has become a direct-API block, and a line that two
\* templates match has become a plugin block of the seeded template
C18_Witness ==
    /\ pc = "lines"
    /\ Cardinality(registry) = 3
    /\ \E k \in 1..Len(src_lines), id \in 1..Len(ps.arena) :
         /\ src_lines[k] \in {l[1] : l \in LiteralLines}
         /\ PluginsMatching(src_lines[k]) # {}
         /\ ps.arena[id].type = BLOCK_QUEST_CALL
    /\ \E k \in 1..Len(src_lines), id \in 1..Len(ps.arena) :
         /\ Cardinality(PluginsMatching(src_lines[k])) = 2
         /\ ps.arena[id].type = BLOCK_PLUGIN
         /\ ps.arena[id].params.plugin_id = S(<<"say_to_client">>)

\* ------------------------------------------------------------------------
\* Specification of the declarations: my/our blocks with the value texts the
\* property editor can hold are added at top level, then the script is
\* generated
\* ------------------------------------------------------------------------
DeclValues ==
    { S(<<>>), S(<<" ">>), S(<<";">>), S(<<"1">>), S(<<"1", ";">>),
      S(<<"1", ";", ";">>), S(<<"1", " ">>), S(<<"1", " ", ";">>),
      S(<<"1", ";", " ">>), I(5), None }

DeclPool ==
    { Block(t, [var_name |-> S(<<"$x">>), value |-> v], <<>>) :
        t \in {BLOCK_MY_VAR, BLOCK_OUR_VAR}, v \in DeclValues }
    \cup { Block(t, [var_name |-> S(<<"$x">>)], <<>>) : t \in {BLOCK_MY_VAR, BLOCK_OUR_VAR} }

AddDecl ==
    /\ pc = "edit"
    /\ perl = NotRun /\ issues = NotRun
    /\ Len(arena) < MaxBlocks
    /\ \E b \in DeclPool :
         /\ arena' = Append(arena, b)
         /\ roots' = Append(roots, Len(arena) + 1)
    /\ UNCHANGED <<pc, registry, perl, issues, scanVars, parseVars, renderVars, window>>

NextDecl == AddDecl \/ Generate

SpecDecl == InitGen /\ [][NextDecl]_vars

\* ------------------------------------------------------------------------
\* C19: the terminator of a declaration

\* the supplied value text of a declaration block, empty when none is
\* supplied
ValueText(b) ==
    IF "value" \notin DOMAIN b.params \/ b.params.value.t = "none" THEN <<>>
    ELSE PyStr(b.params.value)

\* the script has been generated from the tree
Generated == perl # NotRun /\ perl.ok

\* the line generated for top-level block id: the header takes two lines
GeneratedLine(id) == splitlines(perl.v)[2 + id]

\* the line ends with one terminator, not with two
EndsWithOneTerminator(l) ==
    /\ Len(l) >= 1 /\ l[Len(l)] = ";"
    /\ Len(l) >= 2 => l[Len(l) - 1] # ";"

\* two declarations of one kind and one variable
SameDeclaration(a, b) ==
    a.type = b.type /\ a.params.var_name = b.params.var_name

\* C19 as stated: the statement generated for a my/our block ends with
\* exactly one terminator whatever the value text, and a value text with a
\* trailing terminator gives the same line as the text without it
C19_TerminatorNeverDoubled ==
    Generated =>
      /\ \A id \in 1..Len(arena) : EndsWithOneTerminator(GeneratedLine(id))
      /\ \A i, j \in 1..Len(arena) :
           (SameDeclaration(arena[i], arena[j])
              /\ ValueText(arena[i]) = ValueText(arena[j]) \o <<";">>)
             => GeneratedLine(i) = GeneratedLine(j)

\* the value text ends, blanks aside, with a terminator
HasTrailingTerminator(v) == endswith(rstrip(v), <<";">>)

\* the value text without its trailing terminator and the blanks around it
WithoutTerminator(v) == rstrip(SubSeq(rstrip(v), 1, Len(rstrip(v)) - 1))

\* at most one trailing terminator
SingleTerminated(v) ==
    HasTrailingTerminator(v) => ~HasTrailingTerminator(WithoutTerminator(v))

\* C19 as the code has it: exactly one trailing terminator is stripped, so
\* the statement ends with exactly one terminator for every value text that
\* does not end with two, and such a text with a trailing terminator gives
\* the same line as the text without the terminator and the blanks around it
C19_OneTerminatorStripped ==
    Generated =>
      /\ \A id \in 1..Len(arena) :
           SingleTerminated(ValueText(arena[id]))
             => EndsWithOneTerminator(GeneratedLine(id))
      /\ \A i, j \in 1..Len(arena) :
           (/\ SameDeclaration(arena[i], arena[j])
            /\ HasTrailingTerminator(ValueText(arena[i]))
            /\ SingleTerminated(ValueText(arena[i]))
            /\ ValueText(arena[j]) = WithoutTerminator(ValueText(arena[i])))
             => GeneratedLine(i) = GeneratedLine(j)

\* the script has been generated for a declaration with the value 1; and the
\* same declaration with the value 1, and both lines read my $x = 1;
C19_Witness ==
    /\ Generated
    /\ Len(arena) = 2
    /\ arena[1].type = BLOCK_MY_VAR /\ arena[2].type = BLOCK_MY_VAR
    /\ ValueText(arena[1]) = <<"1", ";">>
    /\ ValueText(arena[2]) = <<"1">>
    /\ GeneratedLine(1) = <<"my", " ", "$x", " ", "=", " ", "1", ";">>
    /\ GeneratedLine(2) = GeneratedLine(1)

\* ------------------------------------------------------------------------
\* C20: the accumulation of a multi-line declaration or a subroutine body

\* how many lexemes of the lines are the given one
RECURSIVE CountIn(_, _)
CountIn(ls, ch) ==
    IF ls = <<>> THEN 0
    ELSE Cardinality({i \in 1..Len(Head(ls)) : Head(ls)[i] = ch}) + CountIn(Tail(ls), ch)

\* the depth of a span of lines: braces for a subroutine body, parentheses
\* for a bracketed declaration (no line of the pool has a bracket in a string
\* or a comment)
SpanDepth(st, span) ==
    IF st.custom_sub_name.t # "none"
    THEN CountIn(span, "{") - CountIn(span, "}")
    ELSE CountIn(span, "(") - CountIn(span, ")")

\* the lines accumulated so far
SpanOf(st) ==
    IF st.custom_sub_name.t # "none" THEN st.custom_sub_lines ELSE st.multiline_lines

\* C20: while a multi-line declaration or a non-event subroutine body is
\* accumulated, a line that leaves the depth of the span above zero is only
\* appended to the span (no block is made, the open containers and the
\* pending comment stay), and the line that brings the depth back to zero
\* ends the accumulation with exactly one new block, a raw block holding the
\* whole span
C20_Accumulation ==
    [][(pc = "lines" /\ Len(src_lines') = Len(src_lines) + 1 /\ Accumulating(ps)) =>
         LET span == Append(SpanOf(ps), src_lines'[Len(src_lines')]) IN
         IF SpanDepth(ps, span) > 0
         THEN /\ Accumulating(ps')
              /\ SpanOf(ps') = span
              /\ ps'.arena = ps.arena
              /\ ps'.stack = ps.stack
              /\ ps'.comment_accum = ps.comment_accum
         ELSE /\ ~Accumulating(ps')
              /\ Len(ps'.arena) = Len(ps.arena) + 1
              /\ ps'.arena[Len(ps'.arena)].type = BLOCK_RAW_PERL
              /\ ps'.arena[Len(ps'.arena)].params.code = S(join(span))
              /\ ps'.stack = ps.stack]_vars

\* ------------------------------------------------------------------------
\* C21: the closing delimiter

\* a step of the parser that reads a line outside the accumulation of a
\* declaration or a subroutine body
ReadsOutsideSpan ==
    /\ pc = "lines"
    /\ Len(src_lines') = Len(src_lines) + 1
    /\ ~Accumulating(ps)

\* C21: outside accumulation a line that is, blanks aside, the closing brace
\* alone pops exactly one open container; any other line, one that starts
\* with the closing brace and carries further text included, takes nothing
\* off the stack of open containers
C21_ClosingDelimiter ==
    [][ReadsOutsideSpan =>
         LET stripped == strip(src_lines'[Len(src_lines')]) IN
         /\ (stripped = <<"}">> /\ ps.stack # <<>>)
              => ps'.stack = SubSeq(ps.stack, 1, Len(ps.stack) - 1)
         /\ (stripped # <<"}">>) => Len(ps'.stack) >= Len(ps.stack)]_vars

\* ------------------------------------------------------------------------
\* Specification of the lint: blocks whose texts open a quote, a parenthesis
\* or a brace, and blocks the other checks report, are added to the tree;
\* the script is generated and validated (refresh_diagnostics)
\* ------------------------------------------------------------------------
LintTexts == {<<"\"">>, <<"(">>, <<"{">>}

LintPool ==
    { Block(BLOCK_EVENT, [event_name |-> S(<<"EVENT_SAY">>)], <<>>),
      Block(BLOCK_PLUGIN, [plugin_id |-> S(<<>>)], <<>>),
      Block(BLOCK_TIMER, [name |-> S(<<"respawn">>), seconds |-> I(-1)], <<>>),
      Block(BLOCK_TIMER, [name |-> I(5), seconds |-> I(5)], <<>>),
      Block(BLOCK_IF, [expr |-> S(<<"$x">>)], <<>>),
      Block(BLOCK_QUEST_CALL, [quest_fn |-> S(<<"say">>), args |-> S(<<"\"", "Hi", "\"">>)], <<>>),
      Block(BLOCK_RAW_PERL, [code |-> S(<<"}">>)], <<>>),
      Block(BLOCK_COMMENT, [text |-> S(<<"'">>)], <<>>) }
    \cup { Block(BLOCK_RAW_PERL, [code |-> S(w)], <<>>) : w \in LintTexts }
    \cup { Block(BLOCK_IF, [expr |-> S(w)], <<>>) : w \in LintTexts }
    \cup { Block(BLOCK_WHILE, [expr |-> S(w)], <<>>) : w \in LintTexts }
    \cup { Block(BLOCK_QUEST_CALL, [quest_fn |-> S(<<"say">>), args |-> S(w)], <<>>) :
             w \in LintTexts }

\* as AddBlock, over the blocks of LintPool
AddLint ==
    /\ pc = "edit"
    /\ perl = NotRun /\ issues = NotRun
    /\ Len(arena) < MaxChecked
    /\ \E b \in LintPool, parent \in 0..Len(arena) :
         LET id == Len(arena) + 1 IN
         IF parent = 0
         THEN /\ arena' = Append(arena, b)
              /\ roots' = Append(roots, id)
         ELSE /\ arena' = Append([arena EXCEPT ![parent].children = Append(@, id)], b)
              /\ roots' = roots
    /\ UNCHANGED <<pc, registry, perl, issues, scanVars, parseVars, renderVars, window>>

NextLint == AddLint \/ Generate \/ Validate

SpecLint == InitGen /\ [][NextLint]_vars

\* ------------------------------------------------------------------------
\* C22: the order of the issues

StructuralMessages ==
    {"No EVENT block found (script will do nothing).", "Duplicate top-level handler"}

PluginMessages ==
    {"Plugin block has no plugin selected.",
     "Unknown plugin_id (not found in plugins.json).",
     "Plugin template render failed"}

TimerMessages ==
    {"Timer block missing timer name.", "Timer seconds must be >= 0.",
     "Timer seconds is not an integer.",
     "You set timers but have no EVENT_TIMER handler."}

WholeMessages ==
    {"Failed to generate Perl for linting", "Whole script: unbalanced quotes.",
     "Whole script: too many ')'.", "Whole script: missing ')'.",
     "Whole script: unbalanced parentheses.", "Whole script: too many '}'.",
     "Whole script: missing '}'.", "Whole script: unbalanced braces."}

\* the check an issue comes from: structure, plugins, timers, the texts of
\* the blocks, the whole script
CheckOf(iss) ==
    CASE iss.message \in StructuralMessages -> "structure"
      [] iss.message \in PluginMessages -> "plugin"
      [] iss.message \in TimerMessages -> "timer"
      [] iss.message \in WholeMessages -> "whole"
      [] OTHER -> "block"

CheckRank(c) ==
    CASE c = "structure" -> 1 [] c = "plugin" -> 2 [] c = "timer" -> 3
      [] c = "block" -> 4 [] c = "whole" -> 5

\* the tree holds something the check has to report
HasFinding(c) ==
    CASE c = "structure" -> \A id \in 1..Len(roots) : arena[roots[id]].type # BLOCK_EVENT
      [] c = "plugin" ->
           \E id \in 1..Len(arena) :
               arena[id].type = BLOCK_PLUGIN /\ arena[id].params.plugin_id = S(<<>>)
      [] c = "timer" ->
           \E id \in 1..Len(arena) :
               arena[id].type = BLOCK_TIMER /\ arena[id].params.seconds = I(-1)
      [] c = "block" ->
           \E id \in 1..Len(arena) :
               arena[id].type = BLOCK_IF /\ arena[id].params.expr = S(<<"(">>)
      [] c = "whole" ->
           /\ Len(roots) = Len(arena)
           /\ \E id \in 1..Len(arena) :
                  arena[id].type = BLOCK_QUEST_CALL /\ arena[id].params.args = S(<<"(">>)
           /\ \A id \in 1..Len(arena) :
                  \/ arena[id].type \in {BLOCK_PLUGIN, BLOCK_TIMER}
                  \/ arena[id].type = BLOCK_QUEST_CALL /\ arena[id].params.args = S(<<"(">>)

Checks == {"structure", "plugin", "timer", "block", "whole"}

\* C22: every call of validate returns a list in which the issues of the
\* structure check come before those of the plugin check, those before the
\* timer issues, those before the issues on the texts of single blocks, and
\* those before the whole-script issues; and each of the five checks has
\* run, so that whatever it has to report is in the list
C22_IssueOrder ==
    issues # NotRun =>
      /\ issues.ok
      /\ \A i, j \in 1..Len(issues.v) :
           i < j => CheckRank(CheckOf(issues.v[i])) <= CheckRank(CheckOf(issues.v[j]))
      /\ \A c \in Checks :
           HasFinding(c) => \E i \in 1..Len(issues.v) : CheckOf(issues.v[i]) = c

\* ------------------------------------------------------------------------
\* C23: the checks on the text of a block

QuoteMessages == {"Unbalanced quotes (missing \" or ')."}

ParenMessages ==
    {"Too many ')' (parentheses close before open).", "Unbalanced parentheses (missing ')')."}

BraceMessages ==
    {"Too many '}' (brace close before open).", "Unbalanced braces (missing '}')."}

\* the list validate returned has an issue with one of the messages that
\* references block id
Flagged(id, messages) ==
    \E i \in 1..Len(issues.v) :
        issues.v[i].block_ref = id /\ issues.v[i].message \in messages

\* the balance scanner finds the pair unbalanced in the text
PairUnbalanced(w, o, c) ==
    ~_balanced_pairs(w, o, c).ok \/ _balanced_pairs(w, o, c).delta # 0

\* the text of block id that the lint reads, empty for the other kinds
LintedText(id) ==
    CASE arena[id].type = BLOCK_RAW_PERL -> arena[id].params.code.s
      [] arena[id].type \in {BLOCK_IF, BLOCK_WHILE} -> arena[id].params.expr.s
      [] arena[id].type = BLOCK_QUEST_CALL -> arena[id].params.args.s
      [] OTHER -> <<>>

\* C23: validate checks the text of every raw block for the balance of
\* quotes and of parentheses but not of braces, and every condition of an
\* if/while block and every argument text of an API call for all three: the
\* block is flagged for a symbol exactly when the check applies and the
\* scanner finds the symbol unbalanced in its text
C23_LexicalScope ==
    issues # NotRun =>
      /\ issues.ok
      /\ \A id \in 1..Len(arena) :
           arena[id].type \in {BLOCK_RAW_PERL, BLOCK_IF, BLOCK_WHILE, BLOCK_QUEST_CALL} =>
             /\ Flagged(id, QuoteMessages) <=> _unbalanced_quotes(LintedText(id))
             /\ Flagged(id, ParenMessages) <=> PairUnbalanced(LintedText(id), "(", ")")
             /\ Flagged(id, BraceMessages) <=>
                  (arena[id].type # BLOCK_RAW_PERL /\ PairUnbalanced(LintedText(id), "{", "}"))

\* ------------------------------------------------------------------------
\* C24: the check of the whole script

WholeQuoteMessages == {"Whole script: unbalanced quotes."}

WholeParenMessages ==
    {"Whole script: too many ')'.", "Whole script: missing ')'.",
     "Whole script: unbalanced parentheses."}

WholeBraceMessages ==
    {"Whole script: too many '}'.", "Whole script: missing '}'.",
     "Whole script: unbalanced braces."}

\* the list validate returned has an issue with one of the messages
Reported(messages) ==
    \E i \in 1..Len(issues.v) : issues.v[i].message \in messages

\* C24: when the tree has been generated and validated, the list validate
\* returns has a whole-script issue about quotes, parentheses or braces
\* exactly when the balance scanner finds that symbol unbalanced in the
\* generated text, whether or not a single block is flagged
C24_WholeDocument ==
    (perl # NotRun /\ perl.ok /\ issues # NotRun) =>
      /\ issues.ok
      /\ Reported(WholeQuoteMessages) <=> _unbalanced_quotes(perl.v)
      /\ Reported(WholeParenMessages) <=> PairUnbalanced(perl.v, "(", ")")
      /\ Reported(WholeBraceMessages) <=> PairUnbalanced(perl.v, "{", "}")

\* ------------------------------------------------------------------------
\* Specification of the nesting: containers, one-line and two-line leaves
\* are nested up to three deep, then the script is generated
\* ------------------------------------------------------------------------
NestPool ==
    { Block(BLOCK_EVENT, [event_name |-> S(<<"EVENT_SAY">>)], <<>>),
      Block(BLOCK_IF, [expr |-> S(<<"$x">>)], <<>>),
      Block(BLOCK_QUEST_CALL, [quest_fn |-> S(<<"say">>), args |-> S(<<"\"", "Hi", "\"">>)], <<>>),
      Block(BLOCK_RAW_PERL, [code |-> S(<<"foo", "\n", " ", "x">>)], <<>>),
      Block(BLOCK_COMMENT, [text |-> S(<<"note", "\n", "k">>)], <<>>) }

\* as AddBlock, over the blocks of NestPool
AddNested ==
    /\ pc = "edit"
    /\ perl = NotRun /\ issues = NotRun
    /\ Len(arena) < MaxNested
    /\ \E b \in NestPool, parent \in 0..Len(arena) :
         LET id == Len(arena) + 1 IN
         IF parent = 0
         THEN /\ arena' = Append(arena, b)
              /\ roots' = Append(roots, id)
         ELSE /\ arena' = Append([arena EXCEPT ![parent].children = Append(@, id)], b)
              /\ roots' = roots
    /\ UNCHANGED <<pc, registry, perl, issues, scanVars, parseVars, renderVars, window>>

NextNest == AddNested \/ Generate

SpecNest == InitGen /\ [][NextNest]_vars

\* ------------------------------------------------------------------------
\* C25: indentation and order of the generated lines

\* n blanks
Blanks(n) == [i \in 1..n |-> " "]

\* the own texts of the lines of a leaf block, in order
RECURSIVE OwnTexts(_, _)
OwnTexts(ls, d) ==
    IF ls = <<>> THEN <<>>
    ELSE <<[depth |-> d, own |-> Head(ls)]>> \o OwnTexts(Tail(ls), d)

\* the lines the claim expects for the blocks ids at depth d, each with its
\* depth and its own text: depth first, siblings in the order of the list,
\* the opener of a container before the lines of its children and the closer
\* after them (an event handler is followed by an empty line); the children
\* of a block that is no container are not generated
RECURSIVE Outline(_, _)
Outline(ids, d) ==
    IF ids = <<>> THEN <<>>
    ELSE LET b == arena[Head(ids)] IN
         (IF b.type \in ContainerKinds
          THEN <<[depth |-> d, own |-> OpenerLine(b)]>>
                 \o Outline(b.children, d + 1)
                 \o <<[depth |-> d, own |-> <<"}">>]>>
                 \o (IF b.type = BLOCK_EVENT THEN <<[depth |-> d, own |-> <<>>]>> ELSE <<>>)
          ELSE OwnTexts(LeafLines(b, registry, 0).v, d))
         \o Outline(Tail(ids), d)

\* each expected line behind exactly 4 * depth blanks
RECURSIVE Indented(_)
Indented(outline) ==
    IF outline = <<>> THEN <<>>
    ELSE <<Blanks(4 * Head(outline).depth) \o Head(outline).own>> \o Indented(Tail(outline))

CommentLine(line) == strip(line) # <<>> /\ Head(strip(line)) = "#"

\* how many blocks of the arena are comment blocks
CommentBlocks(ar) == Cardinality({id \in 1..Len(ar) : ar[id].type = BLOCK_COMMENT})

\* the step flushed the pending comment of st into one comment block of
\* st2: the block holds the pending lines in order, hangs under the
\* container that was innermost-open in st, and is generated as one comment
\* line per pending line
FlushedInto(st, st2) ==
    /\ Len(st2.arena) > Len(st.arena)
    /\ CommentBlocks(st2.arena) = CommentBlocks(st.arena) + 1
    /\ LET id == Len(st.arena) + 1 IN
       /\ st2.arena[id].type = BLOCK_COMMENT
       /\ st2.arena[id].params.text = S(join(st.comment_accum))
       /\ ParentOf(st2, id) = (IF st.stack = <<>> THEN 0 ELSE st.stack[Len(st.stack)])
       /\ LeafLines(st2.arena[id], registry, 0).ok
       /\ Len(LeafLines(st2.arena[id], registry, 0).v) = Len(st.comment_accum)

\* C26: outside the accumulation of a span, a comment line is added to the
\* pending comment and makes no block; a blank or other line, and the end
\* of the text, flush a pending comment into exactly one comment block with
\* one text line per accumulated line, attached to the innermost open
\* container of that moment, and that block generates one comment line per
\* text line
C26_CommentAccumulation ==
    [][(ReadsOutsideSpan =>
          IF CommentLine(src_lines'[Len(src_lines')])
          THEN /\ Len(ps'.comment_accum) = Len(ps.comment_accum) + 1
               /\ SubSeq(ps'.comment_accum, 1, Len(ps.comment_accum)) = ps.comment_accum
               /\ ps'.arena = ps.arena
          ELSE /\ ps'.comment_accum = <<>>
               /\ (ps.comment_accum # <<>> => FlushedInto(ps, ps'))
               /\ (ps.comment_accum = <<>> =>
                     CommentBlocks(ps'.arena) = CommentBlocks(ps.arena)))
       /\ ((pc = "lines" /\ pc' = "returned" /\ ps.comment_accum # <<>>)
             => FlushedInto(ps, ps'))]_vars

\* C27: when the text ends while a multi-line declaration or the body of a
\* non-event subroutine is still accumulated, the lines accumulated so far
\* are returned as one raw block; no accumulated line is lost
C27_EndOfInputDuringAccumulation ==
    [][(pc = "lines" /\ pc' = "returned" /\ Accumulating(ps)) =>
         \E id \in (Len(ps.arena) + 1)..Len(ps'.arena) :
             /\ ps'.arena[id].type = BLOCK_RAW_PERL
             /\ ps'.arena[id].params.code \in
                    {S(join(SpanOf(ps))), S(rstrip(join(SpanOf(ps))))}]_vars

\* how many times block id is held by the result: in the top-level list and
\* in the children of the blocks
TimesHeld(st, id) ==
    Cardinality({k \in 1..Len(st.blocks) : st.blocks[k] = id})
      + Cardinality({pk \in (1..Len(st.arena)) \X (1..Len(st.arena)) :
                       /\ pk[2] <= Len(st.arena[pk[1]].children)
                       /\ st.arena[pk[1]].children[pk[2]] = id})

\* the stack of open containers is a chain from a top-level block down to
\* the innermost open container
StackChain(st) ==
    /\ st.stack # <<>> => \E k \in 1..Len(st.blocks) : st.blocks[k] = st.stack[1]
    /\ \A i \in 2..Len(st.stack) :
          \E k \in 1..Len(st.arena[st.stack[i - 1]].children) :
              st.arena[st.stack[i - 1]].children[k] = st.stack[i]

ParserTreeShape ==
    /\ StackChain(ps)
    /\ \A i \in 1..Len(ps.stack) : ps.arena[ps.stack[i]].type \in ContainerKinds
    /\ \A id \in 1..Len(ps.arena) : TimesHeld(ps, id) = 1

\* a line that starts with the closing brace is read outside accumulation
\* with no container open
ClosesNothing ==
    /\ ReadsOutsideSpan
    /\ strip(src_lines'[Len(src_lines')]) # <<>>
    /\ Head(strip(src_lines'[Len(src_lines')])) = "}"
    /\ ps.stack = <<>>

\* C28 (as claimed): after every line the stack of open containers is a
\* chain from a top-level block to the innermost open container, holds
\* container kinds only, and every block made so far is held exactly once by
\* the result; a closing line read with no container open leaves the stack
\* and the tree as they were.
C28_ParserStackInvariant ==
    /\ [](pc \in {"lines", "returned"} => ParserTreeShape)
    /\ [][ClosesNothing =>
            /\ ps'.stack = ps.stack
            /\ ps'.arena = ps.arena
            /\ ps'.blocks = ps.blocks]_vars

\* C28 (amended): the same, except that the closing line read with no
\* container open still flushes the pending comment: the stack stays empty
\* and the tree gains the comment block of the pending comment, if there is
\* one, and nothing else.
C28_ParserStackInvariantWithFlush ==
    /\ [](pc \in {"lines", "returned"} => ParserTreeShape)
    /\ [][ClosesNothing =>
            /\ ps'.stack = ps.stack
            /\ IF ps.comment_accum = <<>>
               THEN ps'.arena = ps.arena /\ ps'.blocks = ps.blocks
               ELSE /\ Len(ps'.arena) = Len(ps.arena) + 1
                    /\ SubSeq(ps'.arena, 1, Len(ps.arena)) = ps.arena
                    /\ ps'.arena[Len(ps'.arena)].type = BLOCK_COMMENT
                    /\ ps'.blocks = Append(ps.blocks, Len(ps'.arena))]_vars

\* a comment line and then a closing line were read with no container open,
\* after a nest of two containers was opened and closed
C28_Witness ==
    /\ pc = "lines"
    /\ Len(src_lines) >= 2
    /\ CommentLine(src_lines[Len(src_lines) - 1])
    /\ strip(src_lines[Len(src_lines)]) = <<"}">>
    /\ ps.stack = <<>>
    /\ ps.arena # <<>>
    /\ ps.arena[Len(ps.arena)].type = BLOCK_COMMENT
    /\ ps.blocks[Len(ps.blocks)] = Len(ps.arena)

\* ------------------------------------------------------------------------
\* Specification of the history: blocks are added to the tree, edited in the
\* property form and deleted; the debounce timer and the queued emission of
\* structure_changed fire in any order with undo and redo
\* ------------------------------------------------------------------------
EditTexts == {<<"a">>, <<"b">>}

\* the trees _load_script_state restores
LoadedTrees == {<<>>, <<Block(BLOCK_RAW_PERL, [code |-> S(<<"a">>)], <<>>)>>}

InitUndo ==
    /\ pc = "window"
    /\ window \in {MainWindow(blocks) : blocks \in LoadedTrees}
    /\ text = <<>> /\ open_ch = "(" /\ close_ch = ")" /\ scan = "none"
    /\ arena = <<>> /\ roots = <<>> /\ registry = {}
    /\ perl = NotRun /\ issues = NotRun
    /\ ps = InitParser /\ patterns = NotRun /\ src_lines = <<>> /\ perl2 = NotRun
    /\ tmpl = <<>> /\ tmpl_params = <<>> /\ rendered = NotRun

\* the text of a block is changed in the property form
EditBlock ==
    /\ pc = "window"
    /\ Len(window.undo_stack) < MaxHistory
    /\ \E k \in 1..Len(window.script_tree), value \in EditTexts :
         /\ window.script_tree[k].params # [code |-> S(value)]
         /\ window' = on_block_changed(window, k, value)
    /\ UNCHANGED <<pc, scanVars, treeVars, outVars, parseVars, renderVars>>

\* the debounce timer expires
TimerExpires ==
    /\ pc = "window"
    /\ window._undo_debounce_timer
    /\ window' = timeout(window)
    /\ UNCHANGED <<pc, scanVars, treeVars, outVars, parseVars, renderVars>>

\* the queued emission of structure_changed is delivered
StructureChanged ==
    /\ pc = "window"
    /\ window.structure_changed
    /\ window' = on_structure_changed(window)
    /\ UNCHANGED <<pc, scanVars, treeVars, outVars, parseVars, renderVars>>

AddTreeBlock ==
    /\ pc = "window"
    /\ Len(window.script_tree) < MaxItems
    /\ Len(window.undo_stack) < MaxHistory
    /\ window' = on_palette_add_block(window, BLOCK_RAW_PERL)
    /\ UNCHANGED <<pc, scanVars, treeVars, outVars, parseVars, renderVars>>

DeleteBlock ==
    /\ pc = "window"
    /\ Len(window.undo_stack) < MaxHistory
    /\ \E k \in 1..Len(window.script_tree) : window' = on_delete_block(window, k)
    /\ UNCHANGED <<pc, scanVars, treeVars, outVars, parseVars, renderVars>>

Undo ==
    /\ pc = "window"
    /\ window' = on_undo(window)
    /\ UNCHANGED <<pc, scanVars, treeVars, outVars, parseVars, renderVars>>

Redo ==
    /\ pc = "window"
    /\ window' = on_redo(window)
    /\ UNCHANGED <<pc, scanVars, treeVars, outVars, parseVars, renderVars>>

NextUndo ==
    EditBlock \/ TimerExpires \/ StructureChanged \/ AddTreeBlock \/ DeleteBlock
      \/ Undo \/ Redo

SpecUndo == InitUndo /\ [][NextUndo]_vars

\* the step is an undo that moved a state: only on_undo adds to the redo stack
UndoStep == Len(window'.redo_stack) = Len(window.redo_stack) + 1

\* the tree is the state recorded last: no edit waits for its snapshot
Recorded(w) == w.undo_stack # <<>> /\ Top(w.undo_stack) = _serialize_state(w)

\* C29: (a) the undo stack never holds two equal consecutive states and is
\* never empty once the first snapshot is taken; (b) a redo right after an
\* undo gives back the tree the undo took away and leaves both stacks as
\* they were before the undo; (c) a snapshot that pushes a new state empties
\* the redo stack
C29_UndoRedoHistory ==
    /\ [](pc = "window" =>
            /\ window.undo_stack # <<>>
            /\ \A i \in 1..(Len(window.undo_stack) - 1) :
                  window.undo_stack[i] # window.undo_stack[i + 1])
    /\ [][(UndoStep /\ Recorded(window)) =>
            /\ on_redo(window').undo_stack = window.undo_stack
            /\ on_redo(window').redo_stack = window.redo_stack
            /\ on_redo(window').script_tree = window.script_tree]_vars
    /\ [][Len(window'.undo_stack) > Len(window.undo_stack) =>
            \/ window'.redo_stack = <<>>
            \/ /\ window.redo_stack # <<>>
               /\ window' = on_redo(window)]_vars

\* a state was undone and done again while another still waits on the redo
\* stack
C29_Witness ==
    /\ pc = "window"
    /\ Len(window.undo_stack) = 2
    /\ Len(window.redo_stack) = 1
    /\ Recorded(window)
    /\ ~window._undo_debounce_timer

\* C30: an undo invoked after an edit whose debounced snapshot has not been
\* taken yet restores the tree to the state recorded before the edit and
\* takes no recorded state off the undo stack; an undo invoked after the
\* snapshot was taken restores the state recorded before it
C30_DebouncedUndo ==
    [][(pc = "window" /\ window' = on_undo(window)) =>
         IF Recorded(window)
         THEN Len(window.undo_stack) > 1 =>
                 _serialize_state(window') = window.undo_stack[Len(window.undo_stack) - 1]
         ELSE /\ _serialize_state(window') = Top(window.undo_stack)
              /\ window'.undo_stack = window.undo_stack]_vars

====
